---- MODULE Spec2Model ----
(***************************************************************************)
(* A model of kaydle-primitives: the nom parsers of the KDL grammar        *)
(* (whitespace, strings, identifiers, numbers, annotations, values,        *)
(* properties) as operators over sequences of characters, and the node     *)
(* traversal engine of node.rs (Document, Children, NodeContent) as a      *)
(* state machine over the shared remaining-input cursor.                   *)
(*                                                                         *)
(* A character is a one-character string; a text is a sequence of          *)
(* characters.  A parser takes the input text and returns a record         *)
(*   [res |-> "Ok" | "Error" | "Failure", tail |-> text, out |-> value]    *)
(* where "Error" is nom's recoverable Err::Error, "Failure" is the         *)
(* unrecoverable Err::Failure produced by cut(), and for the two error     *)
(* results tail is the input position the error is reported at.            *)
(***************************************************************************)
EXTENDS Integers, Sequences, FiniteSets, TLC

----------------------------------------------------------------------------
(* nom results and the basic combinators                                    *)

Ok(tail, out) == [res |-> "Ok", tail |-> tail, out |-> out]

Error(at) == [res |-> "Error", tail |-> at, out |-> <<>>]

Failure(at) == [res |-> "Failure", tail |-> at, out |-> <<>>]

\* ParserExt::cut: a recoverable error becomes a failure
cut(r) == IF r.res = "Error" THEN [r EXCEPT !.res = "Failure"] ELSE r

\* ParserExt::opt: a recoverable error becomes a success that consumes nothing
opt(r, input) == IF r.res = "Error" THEN Ok(input, <<>>) ELSE r

\* the ? operator and the sequencing combinators (precedes, terminated): on a
\* success what follows runs on the result, an error is returned as it is
then(r, K(_)) == IF r.res = "Ok" THEN K(r) ELSE r

\* ParserExt::map and ParserExt::value
map(r, F(_)) == IF r.res = "Ok" THEN Ok(r.tail, F(r.out)) ELSE r

\* nom::branch::alt and ParserExt::or: the next alternative runs on a
\* recoverable error only
or(r, alt) == IF r.res = "Error" THEN alt ELSE r

\* util::back: the empty text at the end of the input
back(input) == SubSeq(input, Len(input) + 1, Len(input))

\* nom::character::complete::char
char(c, input) ==
    IF input # <<>> /\ Head(input) = c THEN Ok(Tail(input), <<c>>) ELSE Error(input)

\* the characters of a text
Range(s) == {s[i] : i \in 1..Len(s)}

\* the input starts with the text t
StartsWith(input, t) ==
    /\ Len(input) >= Len(t)
    /\ SubSeq(input, 1, Len(t)) = t

\* nom_supreme::tag::complete::tag
tag(t, input) ==
    IF StartsWith(input, t)
    THEN Ok(SubSeq(input, Len(t) + 1, Len(input)), t)
    ELSE Error(input)

\* nom::combinator::eof
eof(input) == IF input = <<>> THEN Ok(input, <<>>) ELSE Error(input)

----------------------------------------------------------------------------
(* whitespace.rs                                                            *)

\* the characters parse_plain_whitespace lists; the last one is the code's
\* '\u{FFEF}'
PlainWhitespaceChars ==
    {"\t", " ", "U+00A0", "U+1680", "U+2000", "U+2001", "U+2002", "U+2003",
     "U+2004", "U+2005", "U+2006", "U+2007", "U+2008", "U+2009", "U+200A",
     "U+202F", "U+205F", "U+3000", "U+FFEF"}

NewlineChars == {"\r", "\n", "U+0085", "\f", "U+2028", "U+2029"}

is_newline(c) == c \in NewlineChars

\* index of the first "/*" or "*/" in the input, 0 when there is none
RECURSIVE FindCommentTag(_, _)
FindCommentTag(input, i) ==
    IF i + 1 > Len(input) THEN 0
    ELSE IF (input[i] = "/" /\ input[i + 1] = "*") \/ (input[i] = "*" /\ input[i + 1] = "/")
         THEN i
         ELSE FindCommentTag(input, i + 1)

RECURSIVE finish_block_comment(_)
finish_block_comment(input) ==
    LET found(i) ==
            IF i = 0 THEN Error(back(input))
            ELSE IF input[i] = "*" THEN Ok(SubSeq(input, i + 2, Len(input)), <<>>)
            ELSE then(finish_block_comment(SubSeq(input, i + 2, Len(input))),
                      LAMBDA r : finish_block_comment(r.tail))
    IN  found(FindCommentTag(input, 1))

\* parse_block_comment that closes at the first "*/", whatever was opened
\* before it
parse_block_comment_NotNested(input) ==
    then(tag(<<"/", "*">>, input), LAMBDA t :
        LET ends == {i \in 1..(Len(t.tail) - 1) :
                        t.tail[i] = "*" /\ t.tail[i + 1] = "/"}
            first == CHOOSE i \in ends : \A j \in ends : i <= j
        IN  IF ends = {} THEN Error(back(input))
            ELSE Ok(SubSeq(t.tail, first + 2, Len(t.tail)), <<>>))

parse_block_comment(input) ==
    then(tag(<<"/", "*">>, input), LAMBDA t : finish_block_comment(t.tail))

\* one item of parse_plain_whitespace: a whitespace character or a block comment
plain_whitespace_item(input) ==
    IF input # <<>> /\ Head(input) \in PlainWhitespaceChars
    THEN Ok(Tail(input), <<>>)
    ELSE parse_block_comment(input)

RECURSIVE many_plain_whitespace(_)
many_plain_whitespace(input) ==
    LET again(r) == IF r.res = "Ok" THEN many_plain_whitespace(r.tail)
                    ELSE IF r.res = "Error" THEN Ok(input, <<>>)
                    ELSE r
    IN  again(plain_whitespace_item(input))

parse_plain_whitespace(input) ==
    then(plain_whitespace_item(input), LAMBDA r : many_plain_whitespace(r.tail))

parse_newline(input) ==
    IF StartsWith(input, <<"\r", "\n">>) THEN Ok(SubSeq(input, 3, Len(input)), <<>>)
    ELSE IF input # <<>> /\ Head(input) \in NewlineChars THEN Ok(Tail(input), <<>>)
    ELSE Error(input)

\* index of the first newline character of the input, 0 when there is none
RECURSIVE FindNewline(_, _)
FindNewline(input, i) ==
    IF i > Len(input) THEN 0
    ELSE IF is_newline(input[i]) THEN i
    ELSE FindNewline(input, i + 1)

\* parse_single_line_comment that stops before the newline
parse_single_line_comment_KeepsNewline(input) ==
    then(tag(<<"/", "/">>, input), LAMBDA t :
        LET found(i) == IF i = 0 THEN Ok(back(t.tail), <<>>)
                        ELSE Ok(SubSeq(t.tail, i, Len(t.tail)), <<>>)
        IN  found(FindNewline(t.tail, 1)))

parse_single_line_comment(input) ==
    then(tag(<<"/", "/">>, input), LAMBDA t :
        LET found(i) == IF i = 0 THEN Ok(back(t.tail), <<>>)
                        ELSE parse_newline(SubSeq(t.tail, i, Len(t.tail)))
        IN  found(FindNewline(t.tail, 1)))

parse_endline(input) ==
    or(parse_newline(input), parse_single_line_comment(input))

\* one item of parse_linespace: an endline or plain whitespace
linespace_item(input) ==
    or(parse_endline(input), parse_plain_whitespace(input))

RECURSIVE many_linespace(_)
many_linespace(input) ==
    LET again(r) == IF r.res = "Ok" THEN many_linespace(r.tail)
                    ELSE IF r.res = "Error" THEN Ok(input, <<>>)
                    ELSE r
    IN  again(linespace_item(input))

parse_linespace(input) ==
    opt(then(linespace_item(input), LAMBDA r : many_linespace(r.tail)), input)

parse_escaped_endline(input) ==
    then(char("\\", input), LAMBDA b :
    then(opt(parse_plain_whitespace(b.tail), b.tail), LAMBDA w :
    parse_endline(w.tail)))

\* one item of parse_node_space: plain whitespace or an escaped endline
node_space_item(input) ==
    or(parse_plain_whitespace(input), parse_escaped_endline(input))

RECURSIVE many_node_space(_)
many_node_space(input) ==
    LET again(r) == IF r.res = "Ok" THEN many_node_space(r.tail)
                    ELSE IF r.res = "Error" THEN Ok(input, <<>>)
                    ELSE r
    IN  again(node_space_item(input))

parse_node_space(input) ==
    then(node_space_item(input), LAMBDA r : many_node_space(r.tail))

\* parse_node_terminator without the eof alternative
parse_node_terminator_NoEof(input) ==
    or(parse_endline(input), char(";", input))

parse_node_terminator(input) ==
    or(parse_endline(input), or(eof(input), char(";", input)))

----------------------------------------------------------------------------
(* string.rs                                                                *)

\* KdlString: the text, and whether it is Cow::Owned or Cow::Borrowed
KdlString(text, owned) == [text |-> text, owned |-> owned]

\* StringBuilder::from_str for KdlString
from_str(s) == KdlString(s, FALSE)

\* StringBuilder::empty
empty == from_str(<<>>)

\* push_str that copies into an owned buffer even when the string is empty
push_str_AlwaysCopies(self, s) == KdlString(self.text \o s, TRUE)

\* StringBuilder::push_str for KdlString
push_str(self, s) ==
    IF self.text = <<>> THEN KdlString(s, FALSE) ELSE KdlString(self.text \o s, TRUE)

\* StringBuilder::push_char for KdlString
push_char(self, c) == KdlString(Append(self.text, c), TRUE)

\* the characters is_identifier excludes by name
NonIdentifierChars ==
    {"\\", "/", "(", ")", "{", "}", "<", ">", ";", "[", "]", "=", ",", "\""}

\* the characters of the model whose code point is at most 0x20
ControlChars == {"\t", "\n", "\r", "\f", " "}

DecDigits == {"0", "1", "2", "3", "4", "5", "6", "7", "8", "9"}

is_identifier(c) == c \notin NonIdentifierChars /\ c \notin ControlChars

is_initial_identifier(c) == is_identifier(c) /\ c \notin DecDigits

\* str::find(|c| !is_identifier(c)): the number of characters before the
\* first non-identifier character, or -1 for None
RECURSIVE FindNonIdentifier(_, _)
FindNonIdentifier(s, i) ==
    IF i > Len(s) THEN -1
    ELSE IF ~is_identifier(s[i]) THEN i - 1
    ELSE FindNonIdentifier(s, i + 1)

parse_bare_identifier(input) ==
    LET found(n) == LET split_point == (IF n = -1 THEN 0 ELSE n) + 1 IN
                    Ok(SubSeq(input, split_point + 1, Len(input)),
                       SubSeq(input, 1, split_point))
    IN  IF input # <<>> /\ is_initial_identifier(Head(input))
        THEN found(FindNonIdentifier(Tail(input), 1))
        ELSE Error(input)

HexDigits == DecDigits \cup {"a", "b", "c", "d", "e", "f", "A", "B", "C", "D", "E", "F"}

\* char::to_digit(16)
HexValue(c) ==
    CASE c = "0" -> 0 [] c = "1" -> 1 [] c = "2" -> 2 [] c = "3" -> 3 [] c = "4" -> 4
      [] c = "5" -> 5 [] c = "6" -> 6 [] c = "7" -> 7 [] c = "8" -> 8 [] c = "9" -> 9
      [] c \in {"a", "A"} -> 10 [] c \in {"b", "B"} -> 11 [] c \in {"c", "C"} -> 12
      [] c \in {"d", "D"} -> 13 [] c \in {"e", "E"} -> 14 [] c \in {"f", "F"} -> 15

\* the length of the longest prefix of s, of at most max characters, made of
\* characters of the set
RECURSIVE TakeWhile(_, _, _, _)
TakeWhile(s, set, max, i) ==
    IF i > Len(s) \/ i > max \/ s[i] \notin set THEN i - 1
    ELSE TakeWhile(s, set, max, i + 1)

\* u32::from_str_radix(s, 16)
RECURSIVE FromHex(_, _)
FromHex(s, acc) ==
    IF s = <<>> THEN acc ELSE FromHex(Tail(s), acc * 16 + HexValue(Head(s)))

\* char::try_from(u32) succeeds: not a surrogate, at most 0x10FFFF
IsScalarValue(cp) == cp <= 1114111 /\ ~(cp >= 55296 /\ cp <= 57343)

\* the character with code point cp
CharOf(cp) ==
    CASE cp = 9 -> "\t" [] cp = 10 -> "\n" [] cp = 13 -> "\r" [] cp = 32 -> " "
      [] cp = 34 -> "\"" [] cp = 97 -> "a" [] cp = 98 -> "b"
      [] OTHER -> "U+" \o ToString(cp)

parse_unicode_escape(input) ==
    then(tag(<<"u", "{">>, input), LAMBDA t :
        LET digits(n) ==
                LET cp == FromHex(SubSeq(t.tail, 1, n), 0) IN
                IF n = 0 \/ ~IsScalarValue(cp) THEN Failure(t.tail)
                ELSE cut(map(char("}", SubSeq(t.tail, n + 1, Len(t.tail))),
                             LAMBDA c : CharOf(cp)))
        IN  digits(TakeWhile(t.tail, HexDigits, 6, 1)))

parse_escape(input) ==
    then(char("\\", input), LAMBDA b :
        IF b.tail = <<>> THEN Error(b.tail)
        ELSE LET c == Head(b.tail)
                 t == Tail(b.tail)
             IN  CASE c = "n" -> Ok(t, "\n")
                   [] c = "r" -> Ok(t, "\r")
                   [] c = "t" -> Ok(t, "\t")
                   [] c = "\\" -> Ok(t, "\\")
                   [] c = "/" -> Ok(t, "/")
                   [] c = "\"" -> Ok(t, "\"")
                   [] c = "b" -> Ok(t, "U+0008")
                   [] c = "f" -> Ok(t, "\f")
                   [] OTHER -> parse_unicode_escape(b.tail))

\* memchr2(b'"', b'\\', ..): the number of characters before the first quote
\* or backslash, or -1 for None
RECURSIVE FindQuoteOrBackslash(_, _)
FindQuoteOrBackslash(s, i) ==
    IF i > Len(s) THEN -1
    ELSE IF s[i] \in {"\"", "\\"} THEN i - 1
    ELSE FindQuoteOrBackslash(s, i + 1)

parse_unescaped_chunk(input) ==
    LET found(n) == IF n = -1 THEN Error(<<>>)
                    ELSE IF n = 0 THEN Error(input)
                    ELSE Ok(SubSeq(input, n + 1, Len(input)), SubSeq(input, 1, n))
    IN  found(FindQuoteOrBackslash(input, 1))

\* parse_chunk: out is [chunk |-> text] for StringChunk::Chunk and
\* [char |-> c] for StringChunk::Char
parse_chunk(input) ==
    or(map(parse_unescaped_chunk(input), LAMBDA s : [kind |-> "Chunk", text |-> s]),
       map(parse_escape(input), LAMBDA c : [kind |-> "Char", text |-> <<c>>]))

\* parse_separated_terminated(parse_chunk, success(()), char('"'), T::empty, fold)
RECURSIVE escaped_string_chunks(_, _)
escaped_string_chunks(input, string) ==
    then(parse_chunk(input), LAMBDA c :
        LET folded == IF c.out.kind = "Chunk"
                      THEN push_str(string, c.out.text)
                      ELSE push_char(string, c.out.text[1])
            terminator(q) == IF q.res = "Ok" THEN Ok(q.tail, folded)
                             ELSE escaped_string_chunks(c.tail, folded)
        IN  terminator(char("\"", c.tail)))

parse_escaped_string(input) ==
    then(char("\"", input), LAMBDA q :
        or(escaped_string_chunks(q.tail, empty),
           cut(map(char("\"", q.tail), LAMBDA e : empty))))

\* the number of '#' at the start of s, up to max
RECURSIVE CountHashes(_, _)
CountHashes(s, i) ==
    IF i > Len(s) \/ s[i] # "#" THEN i - 1 ELSE CountHashes(s, i + 1)

\* memchr(b'"', ..) from index i on: the index of the first quote, 0 for None
RECURSIVE FindQuote(_, _)
FindQuote(s, i) ==
    IF i > Len(s) THEN 0
    ELSE IF s[i] = "\"" THEN i
    ELSE FindQuote(s, i + 1)

\* the loop of parse_raw_string: body is the text after the opening quote,
\* point the SliceShifter's point (characters already skipped)
RECURSIVE raw_string_loop(_, _, _)
raw_string_loop(body, point, hash_count) ==
    LET found(quote_idx) ==
            IF quote_idx = 0 THEN Failure(<<>>)
            ELSE IF Len(body) - quote_idx < hash_count THEN Failure(<<>>)
            ELSE IF \A k \in 1..hash_count : body[quote_idx + k] = "#"
                 THEN Ok(SubSeq(body, quote_idx + hash_count + 1, Len(body)),
                         SubSeq(body, 1, quote_idx - 1))
                 ELSE raw_string_loop(body, quote_idx, hash_count)
    IN  found(FindQuote(body, point + 1))

\* parse_raw_string that closes the string at the first quote, whatever
\* follows it
parse_raw_string_HashesIgnored(input) ==
    then(char("r", input), LAMBDA r :
        LET hashes(n) == then(char("\"", SubSeq(r.tail, n + 1, Len(r.tail))),
                              LAMBDA q : raw_string_loop(q.tail, 0, 0))
        IN  hashes(CountHashes(r.tail, 1)))

parse_raw_string(input) ==
    then(char("r", input), LAMBDA r :
        LET hashes(n) == then(char("\"", SubSeq(r.tail, n + 1, Len(r.tail))),
                              LAMBDA q : raw_string_loop(q.tail, 0, n))
        IN  hashes(CountHashes(r.tail, 1)))

parse_string(input) ==
    or(parse_escaped_string(input), map(parse_raw_string(input), from_str))

parse_identifier(input) ==
    or(map(parse_bare_identifier(input), from_str), parse_string(input))

----------------------------------------------------------------------------
(* number.rs                                                                *)
(* An integer is kept as its magnitude, a sequence of digit values in the   *)
(* radix it was written in, without leading zeros: the 64-bit limits do not *)
(* fit the model checker's integers.  The builder T is "Kdl" for the        *)
(* materializing builders (KdlInt, KdlNumber, KdlValue) and "Unit" for the  *)
(* recognize-only builder ().                                               *)

\* n copies of x
Repeat(x, n) == [i \in 1..n |-> x]

\* the magnitude of u64::MAX in the radix
U64Max(radix) ==
    CASE radix = 2 -> Repeat(1, 64)
      [] radix = 8 -> <<1>> \o Repeat(7, 21)
      [] radix = 16 -> Repeat(15, 16)
      [] OTHER -> <<1, 8, 4, 4, 6, 7, 4, 4, 0, 7, 3, 7, 0, 9, 5, 5, 1, 6, 1, 5>>

\* the magnitude of i64::MIN in the radix
I64MinMagnitude(radix) ==
    CASE radix = 2 -> <<1>> \o Repeat(0, 63)
      [] radix = 8 -> <<1>> \o Repeat(0, 21)
      [] radix = 16 -> <<8>> \o Repeat(0, 15)
      [] OTHER -> <<9, 2, 2, 3, 3, 7, 2, 0, 3, 6, 8, 5, 4, 7, 7, 5, 8, 0, 8>>

\* magnitude a is at most magnitude b (both without leading zeros)
RECURSIVE LexLeq(_, _)
LexLeq(a, b) ==
    IF a = <<>> THEN TRUE
    ELSE IF Head(a) # Head(b) THEN Head(a) < Head(b)
    ELSE LexLeq(Tail(a), Tail(b))

MagnitudeLeq(a, b) == Len(a) < Len(b) \/ (Len(a) = Len(b) /\ LexLeq(a, b))

\* IntBuilder::start
start(sign) ==
    [res |-> "Ok", type |-> IF sign = "Negative" THEN "Signed" ELSE "Unsigned", mag |-> <<>>]

\* IntBuilder::add_digit for KdlInt (checked_mul, then checked_sub or checked_add)
\* and for ()
add_digit(self, digit, radix, T) ==
    LET mag == IF self.mag = <<>> /\ digit = 0 THEN <<>> ELSE Append(self.mag, digit)
        limit == IF self.type = "Signed" THEN I64MinMagnitude(radix) ELSE U64Max(radix)
    IN  IF T = "Unit" THEN self
        ELSE IF MagnitudeLeq(mag, limit) THEN [self EXCEPT !.mag = mag]
        ELSE [self EXCEPT !.res = "BoundsError"]

\* try_fold of add_digit over the digits of one group
RECURSIVE add_digits(_, _, _, _)
add_digits(value, digits, radix, T) ==
    IF digits = <<>> \/ value.res # "Ok" THEN value
    ELSE add_digits(add_digit(value, HexValue(Head(digits)), radix, T), Tail(digits), radix, T)

parse_sign(input) ==
    IF input # <<>> /\ Head(input) = "+" THEN Ok(Tail(input), "Positive")
    ELSE IF input # <<>> /\ Head(input) = "-" THEN Ok(Tail(input), "Negative")
    ELSE Error(input)

parse_optional_sign(input) ==
    or(parse_sign(input), Ok(input, "Positive"))

parse_base(input) ==
    IF StartsWith(input, <<"0", "x">>) THEN Ok(SubSeq(input, 3, Len(input)), 16)
    ELSE IF StartsWith(input, <<"0", "o">>) THEN Ok(SubSeq(input, 3, Len(input)), 8)
    ELSE IF StartsWith(input, <<"0", "b">>) THEN Ok(SubSeq(input, 3, Len(input)), 2)
    ELSE Error(input)

\* the digits the number_parser of the radix accepts
RadixDigits(radix) ==
    CASE radix = 2 -> {"0", "1"}
      [] radix = 8 -> {"0", "1", "2", "3", "4", "5", "6", "7"}
      [] radix = 16 -> HexDigits
      [] OTHER -> DecDigits

\* parse_separated_terminated_res(number_parser.recognize(),
\* at_least_one(char('_')), char('_').not(), start, fold)
RECURSIVE integer_part_loop(_, _, _, _)
integer_part_loop(input, value, radix, T) ==
    LET digits(n) ==
            LET rest == SubSeq(input, n + 1, Len(input))
                fold(folded) ==
                    IF folded.res # "Ok"
                    THEN [res |-> "Error", tail |-> input, out |-> "BoundsError"]
                    ELSE IF rest = <<>> \/ Head(rest) # "_" THEN Ok(rest, folded)
                    ELSE integer_part_loop(
                             SubSeq(rest, TakeWhile(rest, {"_"}, Len(rest), 1) + 1, Len(rest)),
                             folded, radix, T)
            IN  IF n = 0 THEN Error(input)
                ELSE fold(add_digits(value, SubSeq(input, 1, n), radix, T))
    IN  digits(TakeWhile(input, RadixDigits(radix), Len(input), 1))

\* parse_integer_part that skips underscores in front of the first digit group
parse_integer_part_LeadingUnderscore(input, radix, sign, T) ==
    integer_part_loop(SubSeq(input, TakeWhile(input, {"_"}, Len(input), 1) + 1, Len(input)),
                      start(sign), radix, T)

parse_integer_part(input, radix, sign, T) == integer_part_loop(input, start(sign), radix, T)

parse_weird_number(input, T) ==
    then(parse_optional_sign(input), LAMBDA s :
    then(parse_base(s.tail), LAMBDA b :
    cut(parse_integer_part(b.tail, b.out, s.out, T))))

recognize_decimal_component(input) == parse_integer_part(input, 10, "Positive", "Unit")

\* ArrayString<64>: the capacity of the buffer from_str strips underscores into
ArrayStringCapacity == 64

\* the text without its underscores
RemoveUnderscores(s) == SelectSeq(s, LAMBDA c : c # "_")

\* NumberBuilder::from_str for KdlNumber and for ()
number_from_str(text, T) ==
    LET of(stripped) ==
            LET negative == stripped # <<>> /\ Head(stripped) = "-"
                digits == IF stripped # <<>> /\ Head(stripped) \in {"+", "-"}
                          THEN Tail(stripped) ELSE stripped
            IN  IF T = "Unit" THEN [res |-> "Ok", type |-> "Unit"]
                ELSE IF stripped # text /\ Len(stripped) > ArrayStringCapacity
                     THEN [res |-> "BoundsError"]
                ELSE IF \E i \in 1..Len(stripped) : stripped[i] \in {".", "e", "E"}
                     THEN [res |-> "Ok", type |-> "Float", text |-> stripped]
                ELSE add_digits(start(IF negative THEN "Negative" ELSE "Positive"),
                                digits, 10, "Kdl")
    IN  of(RemoveUnderscores(text))

parse_decimal_number(input, T) ==
    then(parse_optional_sign(input), LAMBDA s :
    then(recognize_decimal_component(s.tail), LAMBDA i :
    then(or(then(char(".", i.tail),
                 LAMBDA dot : cut(recognize_decimal_component(dot.tail))),
            Ok(i.tail, <<>>)), LAMBDA f :
    then(IF f.tail # <<>> /\ Head(f.tail) \in {"e", "E"}
         THEN cut(recognize_decimal_component(parse_optional_sign(Tail(f.tail)).tail))
         ELSE Ok(f.tail, <<>>), LAMBDA e :
        LET built(n) == IF n.res = "Ok" THEN Ok(e.tail, n)
                        ELSE [res |-> "Failure", tail |-> input, out |-> "BoundsError"]
        IN  built(number_from_str(SubSeq(input, 1, Len(input) - Len(e.tail)), T))))))

\* parse_number trying the decimal form before the radix-prefixed form
parse_number_DecimalFirst(input, T) ==
    or(parse_decimal_number(input, T),
       map(parse_weird_number(input, T),
           LAMBDA w : IF T = "Unit" THEN [res |-> "Ok", type |-> "Unit"] ELSE w))

parse_number(input, T) ==
    or(map(parse_weird_number(input, T),
           LAMBDA w : IF T = "Unit" THEN [res |-> "Ok", type |-> "Unit"] ELSE w),
       parse_decimal_number(input, T))

----------------------------------------------------------------------------
(* lib.rs, annotation.rs, value.rs, property.rs                             *)

parse_null(input) == tag(<<"n", "u", "l", "l">>, input)

parse_bool(input) ==
    or(map(tag(<<"t", "r", "u", "e">>, input), LAMBDA t : TRUE),
       map(tag(<<"f", "a", "l", "s", "e">>, input), LAMBDA f : FALSE))

\* parse_annotation without the cut() after the '('
parse_annotation_NoCut(input) ==
    then(char("(", input), LAMBDA p :
    then(parse_identifier(p.tail), LAMBDA i :
         map(char(")", i.tail), LAMBDA c : i.out)))

parse_annotation(input) ==
    then(char("(", input), LAMBDA p :
    cut(then(parse_identifier(p.tail), LAMBDA i :
             map(char(")", i.tail), LAMBDA c : i.out))))

\* out is <<>> for AnnotationBuilder::absent and <<annotation>> for annotated
parse_maybe_annotation(input) ==
    or(map(parse_annotation(input), LAMBDA a : <<a>>), Ok(input, <<>>))

\* GenericAnnotated
GenericAnnotated(annotation, item) == [annotation |-> annotation, item |-> item]

\* out is a GenericValue: [type |-> "Null" | "Bool" | "String" | "Number", v |-> ..]
parse_bare_value(input, T) ==
    or(map(parse_null(input), LAMBDA n : [type |-> "Null"]),
    or(map(parse_bool(input), LAMBDA b : [type |-> "Bool", v |-> b]),
    or(map(parse_string(input), LAMBDA s : [type |-> "String", v |-> s]),
       map(parse_number(input, T), LAMBDA m : [type |-> "Number", v |-> m]))))

\* with_annotation(parse_bare_value)
parse_value(input, T) ==
    then(parse_maybe_annotation(input), LAMBDA a :
    map(parse_bare_value(a.tail, T), LAMBDA v : GenericAnnotated(a.out, v)))

\* with_annotation(parse_identifier)
parse_annotated_identifier(input) ==
    then(parse_maybe_annotation(input), LAMBDA a :
    map(parse_identifier(a.tail), LAMBDA i : GenericAnnotated(a.out, i)))

\* GenericProperty
GenericProperty(key, value) == [key |-> key, value |-> value]

parse_property(input, T) ==
    then(parse_identifier(input), LAMBDA k :
    then(char("=", k.tail), LAMBDA e :
    map(parse_value(e.tail, T), LAMBDA v : GenericProperty(k.out, v))))

----------------------------------------------------------------------------
(* node.rs: the parsers and the cursor operations as functions              *)
(*                                                                          *)
(* A cursor is a record of the values its fields hold or refer to: state    *)
(* (the remaining input, owned by the Document), in_progress (the           *)
(* child_in_progress flag of the list that yielded the node, for            *)
(* NodeContent and Children), child_in_progress (the list's own flag).      *)
(* An operation returns the cursor as the call leaves it; the actions       *)
(* write the referents back.                                                *)

\* run_parser_on: the input after running a parser that returned r on it
\* run_parser_on that moves the input to where the parser stopped, whatever
\* the parser returned
run_parser_on_AlwaysCommits(input, r) == r.tail

run_parser_on(input, r) == IF r.res = "Ok" THEN r.tail ELSE input

\* parse_node_start whose end_of_nodes takes the end of the input for a
\* Children list as well
parse_node_start_EofClosesChildren(input, kind) ==
    then(parse_linespace(input), LAMBDA l :
        or(map(parse_annotated_identifier(l.tail), LAMBDA n : <<n>>),
           map(IF kind = "Document" THEN eof(l.tail)
               ELSE or(char("}", l.tail), eof(l.tail)),
               LAMBDA e : <<>>)))

\* parse_node_start(end_of_nodes): out is <<>> for None, <<name>> for Some;
\* kind selects end_of_nodes: eof for "Document", char('}') for "Children"
parse_node_start(input, kind) ==
    then(parse_linespace(input), LAMBDA l :
        or(map(parse_annotated_identifier(l.tail), LAMBDA n : <<n>>),
           map(IF kind = "Document" THEN eof(l.tail) ELSE char("}", l.tail),
               LAMBDA e : <<>>)))

\* InternalNodeEvent
InternalNodeEvent(kind, item) == [kind |-> kind, item |-> item]

\* the second alternative of parse_node_event: children or a node terminator,
\* preceded by optional node space
parse_node_event_end(input) ==
    then(opt(parse_node_space(input), input), LAMBDA s :
        or(map(char("{", s.tail), LAMBDA c : InternalNodeEvent("Children", <<>>)),
           map(parse_node_terminator(s.tail), LAMBDA t : InternalNodeEvent("End", <<>>))))

\* parse_node_event trying the value before the property
parse_node_event_ValueFirst(input, T) ==
    or(then(parse_node_space(input), LAMBDA s :
            or(map(parse_value(s.tail, T), LAMBDA v : InternalNodeEvent("Argument", v)),
               map(parse_property(s.tail, T), LAMBDA p : InternalNodeEvent("Property", p)))),
       parse_node_event_end(input))

parse_node_event(input, T) ==
    or(then(parse_node_space(input), LAMBDA s :
            or(map(parse_property(s.tail, T), LAMBDA p : InternalNodeEvent("Property", p)),
               map(parse_value(s.tail, T), LAMBDA v : InternalNodeEvent("Argument", v)))),
       parse_node_event_end(input))

\* Document::new
Document_new(input) ==
    [kind |-> "Document", state |-> input, child_in_progress |-> FALSE]

\* Document::next_node that yields a node and leaves the input where it was
Document_next_node_KeepsInput(self) ==
    LET ran(r) ==
            LET state == run_parser_on(self.state, r) IN
            IF r.res # "Ok"
            THEN [ret |-> "Err", err |-> r.res, self |-> [self EXCEPT !.state = state]]
            ELSE IF r.out = <<>> THEN [ret |-> "None", self |-> [self EXCEPT !.state = state]]
            ELSE [ret |-> "Node", name |-> r.out[1],
                  self |-> [self EXCEPT !.child_in_progress = TRUE]]
    IN  IF self.child_in_progress THEN [ret |-> "Panic", self |-> self]
        ELSE ran(parse_node_start(self.state, "Document"))

\* Document::next_node
Document_next_node(self) ==
    LET ran(r) ==
            LET state == run_parser_on(self.state, r) IN
            IF r.res # "Ok"
            THEN [ret |-> "Err", err |-> r.res, self |-> [self EXCEPT !.state = state]]
            ELSE IF r.out = <<>> THEN [ret |-> "None", self |-> [self EXCEPT !.state = state]]
            ELSE [ret |-> "Node", name |-> r.out[1],
                  self |-> [self EXCEPT !.state = state, !.child_in_progress = TRUE]]
    IN  IF self.child_in_progress THEN [ret |-> "Panic", self |-> self]
        ELSE ran(parse_node_start(self.state, "Document"))

\* Children::next_node without the check of its own child_in_progress
Children_next_node_NoPanic(self) ==
    LET ran(r) ==
            LET state == run_parser_on(self.state, r) IN
            IF r.res # "Ok"
            THEN [ret |-> "Err", err |-> r.res, self |-> [self EXCEPT !.state = state]]
            ELSE IF r.out = <<>>
                 THEN [ret |-> "None",
                       self |-> [self EXCEPT !.state = state, !.in_progress = FALSE]]
            ELSE [ret |-> "Node", name |-> r.out[1],
                  self |-> [self EXCEPT !.state = state, !.child_in_progress = TRUE]]
    IN  IF ~self.in_progress THEN [ret |-> "None", self |-> self]
        ELSE ran(parse_node_start(self.state, "Children"))

\* Children::next_node that does not tell the parent list when it consumes '}'
Children_next_node_ParentNotTold(self) ==
    LET ran(r) ==
            LET state == run_parser_on(self.state, r) IN
            IF r.res # "Ok"
            THEN [ret |-> "Err", err |-> r.res, self |-> [self EXCEPT !.state = state]]
            ELSE IF r.out = <<>> THEN [ret |-> "None", self |-> [self EXCEPT !.state = state]]
            ELSE [ret |-> "Node", name |-> r.out[1],
                  self |-> [self EXCEPT !.state = state, !.child_in_progress = TRUE]]
    IN  IF ~self.in_progress THEN [ret |-> "None", self |-> self]
        ELSE IF self.child_in_progress THEN [ret |-> "Panic", self |-> self]
        ELSE ran(parse_node_start(self.state, "Children"))

\* Children::next_node without the early return on a completed list
Children_next_node_NotFused(self) ==
    LET ran(r) ==
            LET state == run_parser_on(self.state, r) IN
            IF r.res # "Ok"
            THEN [ret |-> "Err", err |-> r.res, self |-> [self EXCEPT !.state = state]]
            ELSE IF r.out = <<>>
                 THEN [ret |-> "None",
                       self |-> [self EXCEPT !.state = state, !.in_progress = FALSE]]
            ELSE [ret |-> "Node", name |-> r.out[1],
                  self |-> [self EXCEPT !.state = state, !.child_in_progress = TRUE]]
    IN  IF self.child_in_progress THEN [ret |-> "Panic", self |-> self]
        ELSE ran(parse_node_start(self.state, "Children"))

\* Children::next_node that yields a node and leaves the input where it was
Children_next_node_KeepsInput(self) ==
    LET ran(r) ==
            LET state == run_parser_on(self.state, r) IN
            IF r.res # "Ok"
            THEN [ret |-> "Err", err |-> r.res, self |-> [self EXCEPT !.state = state]]
            ELSE IF r.out = <<>>
                 THEN [ret |-> "None",
                       self |-> [self EXCEPT !.state = state, !.in_progress = FALSE]]
            ELSE [ret |-> "Node", name |-> r.out[1],
                  self |-> [self EXCEPT !.child_in_progress = TRUE]]
    IN  IF ~self.in_progress THEN [ret |-> "None", self |-> self]
        ELSE IF self.child_in_progress THEN [ret |-> "Panic", self |-> self]
        ELSE ran(parse_node_start(self.state, "Children"))

\* Children::next_node
Children_next_node(self) ==
    LET ran(r) ==
            LET state == run_parser_on(self.state, r) IN
            IF r.res # "Ok"
            THEN [ret |-> "Err", err |-> r.res, self |-> [self EXCEPT !.state = state]]
            ELSE IF r.out = <<>>
                 THEN [ret |-> "None",
                       self |-> [self EXCEPT !.state = state, !.in_progress = FALSE]]
            ELSE [ret |-> "Node", name |-> r.out[1],
                  self |-> [self EXCEPT !.state = state, !.child_in_progress = TRUE]]
    IN  IF ~self.in_progress THEN [ret |-> "None", self |-> self]
        ELSE IF self.child_in_progress THEN [ret |-> "Panic", self |-> self]
        ELSE ran(parse_node_start(self.state, "Children"))

\* NodeList::next_node, dispatched on the implementor
NodeList_next_node(self) ==
    IF self.kind = "Document" THEN Document_next_node(self) ELSE Children_next_node(self)

\* the NodeContent of the Node a list has just yielded
NodeContent(list) == [state |-> list.state, in_progress |-> list.child_in_progress]

\* the list after the NodeContent (or a cursor derived from it) was used
AfterContent(list, content) ==
    [list EXCEPT !.state = content.state, !.child_in_progress = content.in_progress]

\* NodeContent::next_event that resets in_progress on the Children event too
NodeContent_next_event_ChildrenResets(self, T) ==
    LET ran(r) ==
            LET after == [self EXCEPT !.state = run_parser_on(self.state, r)]
                done == [after EXCEPT !.in_progress = FALSE]
            IN  IF r.res # "Ok" THEN [ret |-> "Err", err |-> r.res, self |-> after]
                ELSE IF r.out.kind \in {"Argument", "Property"}
                     THEN [ret |-> r.out.kind, item |-> r.out.item, self |-> after,
                           tail |-> after]
                ELSE IF r.out.kind = "Children"
                     THEN [ret |-> "Children", self |-> done,
                           children |-> [kind |-> "Children", state |-> done.state,
                                         in_progress |-> done.in_progress,
                                         child_in_progress |-> FALSE]]
                ELSE [ret |-> "End", self |-> done]
    IN  ran(parse_node_event(self.state, T))

\* NodeContent::next_event that does not reset in_progress on the End event
NodeContent_next_event_EndKeeps(self, T) ==
    LET ran(r) ==
            LET after == [self EXCEPT !.state = run_parser_on(self.state, r)] IN
            IF r.res # "Ok" THEN [ret |-> "Err", err |-> r.res, self |-> after]
            ELSE IF r.out.kind \in {"Argument", "Property"}
                 THEN [ret |-> r.out.kind, item |-> r.out.item, self |-> after,
                       tail |-> after]
            ELSE IF r.out.kind = "Children"
                 THEN [ret |-> "Children", self |-> after,
                       children |-> [kind |-> "Children", state |-> after.state,
                                     in_progress |-> after.in_progress,
                                     child_in_progress |-> FALSE]]
            ELSE [ret |-> "End", self |-> after]
    IN  ran(parse_node_event(self.state, T))

\* NodeContent::next_event that tells the list the node is over when the
\* parse fails
NodeContent_next_event_ErrorResets(self, T) ==
    LET ran(r) ==
            LET after == [self EXCEPT !.state = run_parser_on(self.state, r)] IN
            IF r.res # "Ok"
            THEN [ret |-> "Err", err |-> r.res,
                  self |-> [after EXCEPT !.in_progress = FALSE]]
            ELSE IF r.out.kind \in {"Argument", "Property"}
                 THEN [ret |-> r.out.kind, item |-> r.out.item, self |-> after,
                       tail |-> after]
            ELSE IF r.out.kind = "Children"
                 THEN [ret |-> "Children", self |-> after,
                       children |-> [kind |-> "Children", state |-> after.state,
                                     in_progress |-> after.in_progress,
                                     child_in_progress |-> FALSE]]
            ELSE [ret |-> "End", self |-> [after EXCEPT !.in_progress = FALSE]]
    IN  ran(parse_node_event(self.state, T))

\* NodeContent::next_event: tail is the NodeContent handed back by Argument
\* and Property, children the Children handed out by Children; self is the
\* consumed cursor's referents as the call leaves them
NodeContent_next_event(self, T) ==
    LET ran(r) ==
            LET after == [self EXCEPT !.state = run_parser_on(self.state, r)] IN
            IF r.res # "Ok" THEN [ret |-> "Err", err |-> r.res, self |-> after]
            ELSE IF r.out.kind \in {"Argument", "Property"}
                 THEN [ret |-> r.out.kind, item |-> r.out.item, self |-> after,
                       tail |-> after]
            ELSE IF r.out.kind = "Children"
                 THEN [ret |-> "Children", self |-> after,
                       children |-> [kind |-> "Children", state |-> after.state,
                                     in_progress |-> after.in_progress,
                                     child_in_progress |-> FALSE]]
            ELSE [ret |-> "End", self |-> [after EXCEPT !.in_progress = FALSE]]
    IN  ran(parse_node_event(self.state, T))

RECURSIVE NodeContent_drain_from(_, _)
RECURSIVE NodeList_drain_from(_, _)

\* NodeList::drain from a next_node call on: first is TRUE for the first call
\* (a None then gives Empty) and FALSE inside the while loop
NodeList_drain_from(self, first) ==
    LET drained(n, c) ==
            IF c.ret # "Ok" THEN [ret |-> c.ret, self |-> AfterContent(n.self, c.self)]
            ELSE NodeList_drain_from(AfterContent(n.self, c.self), FALSE)
        node(n) ==
            IF n.ret \in {"Panic", "Err"} THEN [ret |-> n.ret, self |-> n.self]
            ELSE IF n.ret = "None"
                 THEN [ret |-> "Ok", outcome |-> IF first THEN "Empty" ELSE "NotEmpty",
                       self |-> n.self]
            ELSE drained(n, NodeContent_drain_from(NodeContent(n.self), TRUE))
    IN  node(NodeList_next_node(self))

\* NodeContent::drain that reports NotEmpty for every children block
NodeContent_drain_from_ChildrenNotEmpty(self, first) ==
    LET drained(d) ==
            LET back_ == [state |-> d.self.state, in_progress |-> d.self.in_progress] IN
            IF d.ret # "Ok" THEN [ret |-> d.ret, self |-> back_]
            ELSE [ret |-> "Ok", outcome |-> "NotEmpty", self |-> back_]
        event(e) ==
            IF e.ret = "Err" THEN [ret |-> "Err", self |-> e.self]
            ELSE IF e.ret \in {"Argument", "Property"}
                 THEN NodeContent_drain_from(e.tail, FALSE)
            ELSE IF e.ret = "End"
                 THEN [ret |-> "Ok", outcome |-> IF first THEN "Empty" ELSE "NotEmpty",
                       self |-> e.self]
            ELSE drained(NodeList_drain_from(e.children, TRUE))
    IN  event(NodeContent_next_event(self, "Unit"))

\* NodeContent::drain that returns at the Children event without draining
\* the Children list
NodeContent_drain_from_SkipsChildren(self, first) ==
    LET event(e) ==
            IF e.ret = "Err" THEN [ret |-> "Err", self |-> e.self]
            ELSE IF e.ret \in {"Argument", "Property"}
                 THEN NodeContent_drain_from(e.tail, FALSE)
            ELSE [ret |-> "Ok", outcome |-> IF first THEN "Empty" ELSE "NotEmpty",
                  self |-> e.self]
    IN  event(NodeContent_next_event(self, "Unit"))

\* NodeContent::drain that returns after the first argument or property,
\* leaving the rest of the node unread
NodeContent_drain_from_StopsEarly(self, first) ==
    LET drained(d) ==
            LET back_ == [state |-> d.self.state, in_progress |-> d.self.in_progress] IN
            IF d.ret # "Ok" THEN [ret |-> d.ret, self |-> back_]
            ELSE [ret |-> "Ok", outcome |-> IF first THEN d.outcome ELSE "NotEmpty",
                  self |-> back_]
        event(e) ==
            IF e.ret = "Err" THEN [ret |-> "Err", self |-> e.self]
            ELSE IF e.ret \in {"Argument", "Property"}
                 THEN [ret |-> "Ok", outcome |-> "NotEmpty", self |-> e.tail]
            ELSE IF e.ret = "End"
                 THEN [ret |-> "Ok", outcome |-> IF first THEN "Empty" ELSE "NotEmpty",
                       self |-> e.self]
            ELSE drained(NodeList_drain_from(e.children, TRUE))
    IN  event(NodeContent_next_event(self, "Unit"))

\* NodeContent::drain from a next_event call on: first is TRUE for the first
\* call and FALSE inside the loop
NodeContent_drain_from(self, first) ==
    LET drained(d) ==
            LET back_ == [state |-> d.self.state, in_progress |-> d.self.in_progress] IN
            IF d.ret # "Ok" THEN [ret |-> d.ret, self |-> back_]
            ELSE [ret |-> "Ok", outcome |-> IF first THEN d.outcome ELSE "NotEmpty",
                  self |-> back_]
        event(e) ==
            IF e.ret = "Err" THEN [ret |-> "Err", self |-> e.self]
            ELSE IF e.ret \in {"Argument", "Property"}
                 THEN NodeContent_drain_from(e.tail, FALSE)
            ELSE IF e.ret = "End"
                 THEN [ret |-> "Ok", outcome |-> IF first THEN "Empty" ELSE "NotEmpty",
                       self |-> e.self]
            ELSE drained(NodeList_drain_from(e.children, TRUE))
    IN  event(NodeContent_next_event(self, "Unit"))

\* NodeList::drain
NodeList_drain(self) == NodeList_drain_from(self, TRUE)

\* NodeContent::drain
NodeContent_drain(self) == NodeContent_drain_from(self, TRUE)

----------------------------------------------------------------------------
(* The traversal engine as a state machine: a caller holding the Document   *)
(* and the cursors derived from it, pulling nodes and events                *)

\* the number of lexemes a document is made of, at most
MaxTok == 5

\* the lexemes documents are made of
Lexemes ==
    {<<"a">>, <<"1">>, <<" ">>, <<"\n">>, <<";">>, <<"{">>, <<"}">>}

\* the number of lexemes a document with properties is made of, at most
MaxPropTok == 5

\* the lexemes documents with properties are made of
PropLexemes ==
    {<<"a">>, <<"1">>, <<" ">>, <<";">>, <<"{">>, <<"=">>, <<"\"", "a", "\"">>}

\* the texts made of at most n lexemes of the set
RECURSIVE TextsUpTo(_, _)
TextsUpTo(n, lexemes) ==
    IF n = 0 THEN {<<>>}
    ELSE LET shorter == TextsUpTo(n - 1, lexemes) IN
         shorter \cup {t \o l : t \in shorter, l \in lexemes}

VARIABLES
    text,       \* the input the Document was created from
    state,      \* Document::state, the remaining input every cursor refers to
    lists,      \* the live node lists, outermost first: the Document, then
                \* each Children borrowed from the list before it
    contents,   \* the live NodeContent cursors, each with the list it borrows
    last,       \* the last call and what it returned
    panicked    \* a panic has unwound the caller

vars == <<text, state, lists, contents, last, panicked>>

Top == Len(lists)

\* a list of the stack: its child_in_progress flag; fused records that its
\* next_node has returned Ok(None); pred records, for the node it yielded
\* last, what NodeContent::drain returns on that node's content
List(kind) ==
    [kind |-> kind, child_in_progress |-> FALSE, fused |-> FALSE,
     pred |-> [ret |-> "None"]]

\* the cursor of list k, with the values its references hold
ListCursor(k) ==
    IF lists[k].kind = "Document"
    THEN [kind |-> "Document", state |-> state,
          child_in_progress |-> lists[k].child_in_progress]
    ELSE [kind |-> "Children", state |-> state,
          in_progress |-> lists[k - 1].child_in_progress,
          child_in_progress |-> lists[k].child_in_progress]

\* the NodeContent cursor borrowed from list k
ContentCursor(k) == [state |-> state, in_progress |-> lists[k].child_in_progress]

\* the lists after list k's cursor was left as self by a call
WriteList(k, self) ==
    [i \in 1..Len(lists) |->
        IF i = k THEN [lists[i] EXCEPT !.child_in_progress = self.child_in_progress]
        ELSE IF i = k - 1 /\ self.kind = "Children"
             THEN [lists[i] EXCEPT !.child_in_progress = self.in_progress]
        ELSE lists[i]]

\* the lists after a content cursor of list k was left as self by a call
WriteContent(k, self) == [lists EXCEPT ![k].child_in_progress = self.in_progress]

\* the number of characters of the input consumed so far
Consumed == Len(text) - Len(state)

\* a call and what it returned: again, a next_node call on a list that had
\* returned None before; fresh, a drain call on a Document nothing was
\* consumed from; closed, a dropped Children list had returned None; outcome,
\* the DrainOutcome; name, argument and property, <<>> or the one item a Node
\* or NodeEvent carries
Call(op, ret, list) ==
    [op |-> op, ret |-> ret, list |-> list, again |-> FALSE, fresh |-> FALSE,
     closed |-> FALSE, outcome |-> "None", name |-> <<>>, argument |-> <<>>,
     property |-> <<>>]

\* Document::new(input) on a text of the set
InitOn(texts) ==
    /\ text \in texts
    /\ state = Document_new(text).state
    /\ lists = <<List("Document")>>
    /\ contents = {}
    /\ last = Call("new", "Ok", 1)
    /\ panicked = FALSE

Init == InitOn(TextsUpTo(MaxTok, Lexemes))

InitProp == InitOn(TextsUpTo(MaxPropTok, PropLexemes))

\* list.next_node() on the innermost list, which no NodeContent borrows
NextNode ==
    /\ ~panicked
    /\ Top >= 1
    /\ contents = {}
    /\ \E r \in {NodeList_next_node(ListCursor(Top))} :
           /\ state' = r.self.state
           /\ lists' = [WriteList(Top, r.self) EXCEPT
                            ![Top].fused = @ \/ r.ret = "None",
                            ![Top].pred = IF r.ret = "Node"
                                          THEN NodeContent_drain(NodeContent(r.self))
                                          ELSE @]
           /\ contents' = IF r.ret = "Node" THEN {[owner |-> Top]} ELSE {}
           /\ panicked' = (r.ret = "Panic")
           /\ last' = [Call("next_node", r.ret, Top) EXCEPT
                           !.again = lists[Top].fused,
                           !.name = IF r.ret = "Node" THEN <<r.name>> ELSE <<>>]
    /\ UNCHANGED text

\* content.next_event() on a live NodeContent; the call consumes the cursor
NextEvent ==
    /\ ~panicked
    /\ \E h \in contents :
       \E r \in {NodeContent_next_event(ContentCursor(h.owner), "Kdl")} :
        /\ state' = r.self.state
        /\ lists' = IF r.ret = "Children"
                    THEN Append(WriteContent(h.owner, r.self), List("Children"))
                    ELSE WriteContent(h.owner, r.self)
        /\ contents' = (contents \ {h}) \cup
                           (IF r.ret \in {"Argument", "Property"} THEN {h} ELSE {})
        /\ last' = [Call("next_event", r.ret, h.owner) EXCEPT
                        !.argument = IF r.ret = "Argument" THEN <<r.item>> ELSE <<>>,
                        !.property = IF r.ret = "Property" THEN <<r.item>> ELSE <<>>]
    /\ UNCHANGED <<text, panicked>>

\* content.drain() on a live NodeContent
DrainContent ==
    /\ ~panicked
    /\ \E h \in contents :
       \E r \in {NodeContent_drain(ContentCursor(h.owner))} :
        /\ state' = r.self.state
        /\ lists' = WriteContent(h.owner, r.self)
        /\ contents' = contents \ {h}
        /\ panicked' = (r.ret = "Panic")
        /\ last' = [Call("drain_content", r.ret, h.owner) EXCEPT
                        !.outcome = IF r.ret = "Ok" THEN r.outcome ELSE "None"]
    /\ UNCHANGED text

\* (&mut list).drain() on the innermost list, which no NodeContent borrows
DrainList ==
    /\ ~panicked
    /\ Top >= 1
    /\ contents = {}
    /\ \E r \in {NodeList_drain(ListCursor(Top))} :
        /\ state' = r.self.state
        /\ lists' = [WriteList(Top, r.self) EXCEPT ![Top].fused = @ \/ r.ret = "Ok"]
        /\ panicked' = (r.ret = "Panic")
        /\ last' = [Call("drain_list", r.ret, Top) EXCEPT
                        !.fresh = (Top = 1 /\ state = text /\ ~lists[1].child_in_progress),
                        !.outcome = IF r.ret = "Ok" THEN r.outcome ELSE "None"]
    /\ UNCHANGED <<text, contents>>

\* the caller drops a NodeContent without driving it to its end
DropContent ==
    /\ ~panicked
    /\ \E h \in contents :
        /\ contents' = contents \ {h}
        /\ last' = Call("drop_content", "Ok", h.owner)
    /\ UNCHANGED <<text, state, lists, panicked>>

\* the caller drops the innermost Children list
DropChildren ==
    /\ ~panicked
    /\ Top >= 2
    /\ contents = {}
    /\ lists' = SubSeq(lists, 1, Top - 1)
    /\ last' = [Call("drop_children", "Ok", Top) EXCEPT !.closed = lists[Top].fused]
    /\ UNCHANGED <<text, state, contents, panicked>>

Next ==
    \/ NextNode
    \/ NextEvent
    \/ DrainContent
    \/ DrainList
    \/ DropContent
    \/ DropChildren

Spec == Init /\ [][Next]_vars

\* the same caller on documents with properties and quoted strings
SpecProp == InitProp /\ [][Next]_vars

----------------------------------------------------------------------------
(* Properties of the traversal engine                                       *)

\* what list.next_node() would return in this state on list k
NextNodeWouldReturn(k) == NodeList_next_node(ListCursor(k)).ret

\* C1: a next_node call on a Document or Children list whose
\* child_in_progress flag is true panics: it returns no node and no None, and
\* the remaining input stays as it was.
C1_NextNodePanics ==
    [][(last'.op = "next_node" /\ lists[last'.list].child_in_progress)
          => (last'.ret = "Panic" /\ panicked' /\ state' = state /\ contents' = {})]_vars

\* C1 happens: a Children list was asked for its next node while the node it
\* yielded before was still open, and the call panicked
C1_Witness ==
    /\ last.op = "next_node"
    /\ last.ret = "Panic"
    /\ lists[last.list].kind = "Children"
    /\ lists[last.list].child_in_progress

\* the number of cursors derived from list k that can advance the remaining
\* input: the NodeContent cursors borrowed from it, and the Children list
\* above it unless that list is completed
Cursors(k) ==
    Cardinality({h \in contents : h.owner = k})
        + (IF k < Len(lists) /\ ~lists[k + 1].fused THEN 1 ELSE 0)

C3_EndOrChildrenIdles ==
    (last.op = "next_event" /\ last.ret \in {"End", "Children"})
        => ~lists[last.list].child_in_progress

\* C3 amended: after an End event the list that yielded the node has
\* child_in_progress false and its next_node does not panic; after a
\* Children event the flag is still true, and the new Children list starts
\* with its own flag false.
C3_EndIdlesChildrenKeeps ==
    /\ (last.op = "next_event" /\ last.ret = "End")
          => /\ ~lists[last.list].child_in_progress
             /\ contents = {}
             /\ NextNodeWouldReturn(last.list) # "Panic"
    /\ (last.op = "next_event" /\ last.ret = "Children")
          => /\ lists[last.list].child_in_progress
             /\ Len(lists) = last.list + 1
             /\ ~lists[Len(lists)].child_in_progress

\* C3 happens: a node of a Children list has produced its End event
C3_Witness ==
    /\ last.op = "next_event"
    /\ last.ret = "End"
    /\ last.list = 2

C5_Fused ==
    [][(last'.op = "next_node" /\ lists[last'.list].fused)
          => (last'.ret = "None" /\ state' = state /\ lists' = lists)]_vars

\* C5 happens: next_node was called again on a completed Children list with
\* input left after its '}'
C5_Witness ==
    /\ last.op = "next_node"
    /\ last.again
    /\ last.ret = "None"
    /\ lists[last.list].kind = "Children"
    /\ state # <<>>

\* C7: a NodeContent::drain that succeeds returns Empty exactly when the
\* first event of the remaining content is End, or is Children with a
\* children block whose first next_node returns None; and on content that
\* starts with a node terminator it succeeds with Empty.
C7_DrainOutcome ==
    [][last'.op = "drain_content"
          => LET content == ContentCursor(last'.list)
                 e == NodeContent_next_event(content, "Unit")
             IN  /\ last'.ret = "Ok"
                    => (last'.outcome = "Empty"
                           <=> \/ e.ret = "End"
                               \/ /\ e.ret = "Children"
                                  /\ NodeList_next_node(e.children).ret = "None")
                 /\ parse_node_terminator(state).res = "Ok"
                    => (last'.ret = "Ok" /\ last'.outcome = "Empty")]_vars

\* C7 happens: a node with an empty children block was drained, with Empty
C7_Witness ==
    /\ last.op = "drain_content"
    /\ last.ret = "Ok"
    /\ last.outcome = "Empty"
    /\ Consumed >= 2
    /\ text[Consumed] = "}"

\* C8: a NodeContent::drain that succeeds leaves the list that yielded the
\* node with child_in_progress false and the remaining input where
\* NodeContent::drain was predicted to leave it when the node was yielded;
\* and whenever a node is completed, by a drain or event by event, children
\* included, the remaining input is at that same position.
C8_DrainReachesNodeEnd ==
    [][/\ \A k \in 1..Len(lists) :
            (/\ k <= Len(lists')
             /\ lists[k].child_in_progress
             /\ ~lists'[k].child_in_progress
             /\ lists[k].pred.ret = "Ok")
                => state' = lists[k].pred.self.state
       /\ (last'.op = "drain_content" /\ last'.ret = "Ok")
            => /\ ~lists'[last'.list].child_in_progress
               /\ lists[last'.list].pred.ret = "Ok"
               /\ state' = lists[last'.list].pred.self.state
               /\ NodeList_next_node([ListCursor(last'.list) EXCEPT
                      !.state = state',
                      !.child_in_progress = lists'[last'.list].child_in_progress]).ret
                    # "Panic"]_vars

\* C8 happens: a node with arguments and children was walked event by event
\* to the '}' of its children, and the Document then yielded its sibling
C8_Witness ==
    /\ last.op = "next_node"
    /\ last.ret = "Node"
    /\ last.list = 1
    /\ lists[1].pred.ret = "Ok"
    /\ \E i \in 1..Consumed : text[i] = "}"

\* s is a suffix of t
IsSuffix(s, t) ==
    /\ Len(s) <= Len(t)
    /\ SubSeq(t, Len(t) - Len(s) + 1, Len(t)) = s

\* s without its leading spaces and newlines
RECURSIVE LeadingSpaceDropped(_)
LeadingSpaceDropped(s) ==
    IF s # <<>> /\ Head(s) \in {" ", "\n"} THEN LeadingSpaceDropped(Tail(s)) ELSE s

\* the source text of a quoted string without escapes
Quoted(chars) == <<"\"">> \o chars \o <<"\"">>

\* C9: over every call the remaining input stays a suffix of the original
\* text and of what it was before the call; a call that yields a node, an
\* argument, a property or children consumes a non-empty span of the input
\* that starts where the previous call stopped, and what it yields is what
\* that span spells: so yields come in source order, each occurrence once.
C9_SourceOrder ==
    [][/\ IsSuffix(state', state)
       /\ IsSuffix(state', text)
       /\ (/\ last'.op \in {"next_node", "next_event"}
           /\ last'.ret \in {"Node", "Argument", "Property", "Children"})
            => LET span == SubSeq(state, 1, Len(state) - Len(state'))
                   source == LeadingSpaceDropped(span)
               IN  /\ Len(state') < Len(state)
                   /\ source # <<>>
                   /\ last'.ret = "Node"
                        => /\ last'.name[1].annotation = <<>>
                           /\ source \in {last'.name[1].item.text,
                                          Quoted(last'.name[1].item.text)}
                   /\ last'.ret = "Argument"
                        => parse_value(source, "Kdl") = Ok(<<>>, last'.argument[1])
                   /\ last'.ret = "Property"
                        => parse_property(source, "Kdl") = Ok(<<>>, last'.property[1])
                   /\ last'.ret = "Children" => source = <<"{">>]_vars

\* C9 happens: after a node, a property was yielded from the end of the
\* text
C9_Witness ==
    /\ last.op = "next_event"
    /\ last.ret = "Property"
    /\ state = <<>>
    /\ Consumed >= 5
    /\ text[1] = "a"
    /\ text[2] = " "

\* the source texts of the keys and the values of the properties of C10,
\* with the text of the key
KeySources ==
    {[source |-> <<"a">>, text |-> <<"a">>],
     [source |-> <<"a", "a">>, text |-> <<"a", "a">>],
     [source |-> <<"a", "1">>, text |-> <<"a", "1">>],
     [source |-> Quoted(<<"a">>), text |-> <<"a">>]}

ValueSources == {<<"1">>, <<"1", "1">>, Quoted(<<"a">>)}

\* C10: on content that is node space, then a key (a bare identifier or a
\* quoted string), then '=', then a value, next_event returns one Property
\* event with that key and that value, and leaves the input after the value;
\* it does not return an Argument event.
C10_PropertyBeforeValue ==
    [][last'.op = "next_event"
          => \A k \in KeySources, v \in ValueSources, n \in 1..2 :
                LET content == Repeat(" ", n) \o k.source \o <<"=">> \o v
                    rest == SubSeq(state, Len(content) + 1, Len(state))
                IN  (/\ StartsWith(state, content)
                     /\ rest # <<>> => Head(rest) \notin DecDigits)
                        => /\ last'.ret = "Property"
                           /\ last'.argument = <<>>
                           /\ last'.property[1].key.text = k.text
                           /\ last'.property[1].value = parse_value(v, "Kdl").out
                           /\ state' = rest]_vars

\* C10 happens: a property with a quoted key was yielded
C10_Witness ==
    /\ last.op = "next_event"
    /\ last.ret = "Property"
    /\ Consumed >= 5
    /\ SubSeq(text, Consumed - 4, Consumed) = Quoted(<<"a">>) \o <<"=", "1">>

----------------------------------------------------------------------------
(* The grammar of a document, for the properties that speak of valid        *)
(* documents: an identifier is the longest run of identifier characters,    *)
(* a node is its annotated name, then arguments and properties separated    *)
(* by node space, then a children block or a terminator; end of input       *)
(* terminates a node of the outermost list only.                            *)

GrammarIdentifier(input) ==
    IF input # <<>> /\ is_initial_identifier(Head(input))
    THEN LET n == TakeWhile(input, {c \in Range(input) : is_identifier(c)}, Len(input), 1)
         IN  Ok(SubSeq(input, n + 1, Len(input)), SubSeq(input, 1, n))
    ELSE parse_string(input)

GrammarAnnotation(input) ==
    IF input # <<>> /\ Head(input) = "("
    THEN LET i == GrammarIdentifier(Tail(input)) IN
         IF i.res = "Ok" /\ i.tail # <<>> /\ Head(i.tail) = ")"
         THEN Ok(Tail(i.tail), <<>>) ELSE Failure(input)
    ELSE Ok(input, <<>>)

GrammarName(input) ==
    LET a == GrammarAnnotation(input) IN
    IF a.res = "Ok" THEN GrammarIdentifier(a.tail) ELSE a

GrammarProperty(input) ==
    LET k == GrammarIdentifier(input) IN
    IF k.res = "Ok" /\ k.tail # <<>> /\ Head(k.tail) = "="
    THEN parse_value(Tail(k.tail), "Unit") ELSE Error(input)

GrammarTerminator(input, kind) ==
    LET e == parse_endline(input) IN
    IF e.res = "Ok" THEN e
    ELSE IF kind = "Document" /\ input = <<>> THEN Ok(input, <<>>)
    ELSE char(";", input)

RECURSIVE GrammarContent(_, _)
RECURSIVE GrammarNodes(_, _, _)

\* the nodes of a list up to its end: ok, the input after the list, and the
\* number of nodes
GrammarNodes(input, kind, count) ==
    LET l == parse_linespace(input).tail
        n == GrammarName(l)
        c == GrammarContent(n.tail, kind)
    IN  IF kind = "Document" /\ l = <<>> THEN [ok |-> TRUE, tail |-> l, count |-> count]
        ELSE IF kind = "Children" /\ l # <<>> /\ Head(l) = "}"
             THEN [ok |-> TRUE, tail |-> Tail(l), count |-> count]
        ELSE IF n.res # "Ok" \/ ~c.ok THEN [ok |-> FALSE, tail |-> l, count |-> count]
        ELSE GrammarNodes(c.tail, kind, count + 1)

\* the content of a node of a list of the kind, after its name
GrammarContent(input, kind) ==
    LET s == parse_node_space(input)
        p == GrammarProperty(s.tail)
        v == parse_value(s.tail, "Unit")
        rest == IF s.res = "Ok" THEN s.tail ELSE input
        t == GrammarTerminator(rest, kind)
    IN  IF s.res = "Ok" /\ p.res = "Ok" THEN GrammarContent(p.tail, kind)
        ELSE IF s.res = "Ok" /\ p.res = "Error" /\ v.res = "Ok" THEN GrammarContent(v.tail, kind)
        ELSE IF rest # <<>> /\ Head(rest) = "{"
             THEN LET n == GrammarNodes(Tail(rest), "Children", 0) IN
                  [ok |-> n.ok, tail |-> n.tail]
        ELSE [ok |-> t.res = "Ok", tail |-> t.tail]

ValidDocument(input) == GrammarNodes(input, "Document", 0).ok

\* C6: draining a fresh Document over a syntactically valid document returns
\* Ok, with NotEmpty exactly when next_node yields a node on that document.
C6_DrainValidDocument ==
    (last.op = "drain_list" /\ last.fresh /\ ValidDocument(text))
        => /\ last.ret = "Ok"
           /\ last.outcome = "NotEmpty"
                  <=> Document_next_node(Document_new(text)).ret = "Node"

----------------------------------------------------------------------------
(* Draining and the panic                                                   *)

\* C13: no input text makes a drain panic: Document::new(text).drain()
\* returns Ok or Err for every text, and after every NodeContent::drain that
\* returned Ok the owning list's child_in_progress flag is false, so that the
\* list's next next_node call does not panic.
C13_DrainNeverPanics ==
    /\ (last.op = "drain_list" /\ last.fresh)
          => (last.ret \in {"Ok", "Err"} /\ ~panicked)
    /\ (last.op = "drain_content" /\ last.ret = "Ok")
          => /\ ~lists[last.list].child_in_progress
             /\ NextNodeWouldReturn(last.list) # "Panic"

\* C13 happens: a whole document, a node with an argument and a children
\* block, was drained from its start
C13_Witness ==
    /\ last.op = "drain_list"
    /\ last.fresh
    /\ text = <<"a", " ", "1", "{", "}">>
    /\ last.ret = "Ok"
    /\ last.outcome = "NotEmpty"
    /\ state = <<>>

----------------------------------------------------------------------------
(* Properties of the parsers at a point of no return                        *)

\* the input is node space, a key and '=', and no value can be parsed after
\* the '='
PropertyValueFails(input) ==
    LET s == parse_node_space(input)
        k == parse_identifier(s.tail)
    IN  /\ s.res = "Ok"
        /\ k.res = "Ok"
        /\ k.tail # <<>>
        /\ Head(k.tail) = "="
        /\ parse_value(Tail(k.tail), "Kdl").res # "Ok"

\* C11: once the '=' of a property has been consumed, a value that fails to
\* parse is a hard error: next_event returns the error, the parser reports an
\* unrecoverable failure, and the key is never yielded as an Argument.
C11_ValueFailureIsHard ==
    [][(last'.op = "next_event" /\ PropertyValueFails(state))
          => /\ last'.ret = "Err"
             /\ parse_node_event(state, "Kdl").res = "Failure"]_vars

----------------------------------------------------------------------------
(* The parsers as a caller applies them: one parser run on a whole input    *)

\* the builders a parser is instantiated with
Builders == {"Kdl", "Unit"}

\* a parser call and the IResult it returned; T is the builder (for
\* parse_node_start, the kind of list)
Parsed(op, T, r) == [op |-> op, T |-> T, r |-> r]

\* an input text of the set, no parser run on it yet
InitInput(texts) ==
    /\ text \in texts
    /\ state = text
    /\ lists = <<>>
    /\ contents = {}
    /\ last = [op |-> "input"]
    /\ panicked = FALSE

\* what running a parser on the input leaves: r is what the parser returned
Apply(op, T, r) ==
    /\ last' = Parsed(op, T, r)
    /\ state' = run_parser_on(state, r)
    /\ UNCHANGED <<text, lists, contents, panicked>>

ParseMaybeAnnotation ==
    /\ last.op = "input"
    /\ Apply("parse_maybe_annotation", "Kdl", parse_maybe_annotation(text))

ParseAnnotatedIdentifier ==
    /\ last.op = "input"
    /\ Apply("parse_annotated_identifier", "Kdl", parse_annotated_identifier(text))

ParseValue ==
    /\ last.op = "input"
    /\ \E T \in Builders : Apply("parse_value", T, parse_value(text, T))

ParseProperty ==
    /\ last.op = "input"
    /\ \E T \in Builders : Apply("parse_property", T, parse_property(text, T))

ParseNodeStart ==
    /\ last.op = "input"
    /\ \E kind \in {"Document", "Children"} :
           Apply("parse_node_start", kind, parse_node_start(text, kind))

ParseNodeEvent ==
    /\ last.op = "input"
    /\ \E T \in Builders : Apply("parse_node_event", T, parse_node_event(text, T))

\* the number of lexemes an annotated input is made of, at most
MaxAnnTok == 5

\* the lexemes annotated inputs are made of
AnnLexemes == {<<"(">>, <<")">>, <<"a">>, <<"1">>, <<" ">>, <<"=">>}

InitAnn == InitInput(TextsUpTo(MaxAnnTok, AnnLexemes))

NextAnn ==
    \/ ParseMaybeAnnotation
    \/ ParseAnnotatedIdentifier
    \/ ParseValue
    \/ ParseProperty
    \/ ParseNodeStart
    \/ ParseNodeEvent

\* the parsers that take an annotation, on inputs with parentheses
SpecAnn == InitAnn /\ [][NextAnn]_vars

\* the input after a key and '=', in a set; empty when it does not start so
AfterKey(input) ==
    LET k == parse_identifier(input) IN
    IF k.res = "Ok" /\ k.tail # <<>> /\ Head(k.tail) = "=" THEN {Tail(k.tail)} ELSE {}

\* the input after mandatory node space, in a set
AfterNodeSpace(input) ==
    LET s == parse_node_space(input) IN
    IF s.res = "Ok" THEN {s.tail} ELSE {}

\* the places of the input where the parser called looks for an annotation
AnnotationSites(op, input) ==
    CASE op \in {"parse_maybe_annotation", "parse_annotated_identifier", "parse_value"}
            -> {input}
      [] op = "parse_property" -> AfterKey(input)
      [] op = "parse_node_start" -> {parse_linespace(input).tail}
      [] op = "parse_node_event"
            -> AfterNodeSpace(input) \cup UNION {AfterKey(s) : s \in AfterNodeSpace(input)}
      [] OTHER -> {}

\* the input opens an annotation that is not an identifier followed by ')'
MalformedAnnotation(input) ==
    /\ input # <<>>
    /\ Head(input) = "("
    /\ LET i == parse_identifier(Tail(input)) IN
       ~(i.res = "Ok" /\ i.tail # <<>> /\ Head(i.tail) = ")")

\* C12: once '(' has been consumed where an annotation may stand, a missing
\* or malformed identifier or a missing ')' is an unrecoverable failure of
\* parse_maybe_annotation and of every parser around it: none falls back to
\* the absent annotation or to another alternative.
C12_AnnotationIsMandatory ==
    \A site \in AnnotationSites(last.op, text) :
        MalformedAnnotation(site) => last.r.res = "Failure"

\* C12 happens: next_event's parser met ` (a 1`, an annotation that is not
\* closed, and failed
C12_Witness ==
    /\ last.op = "parse_node_event"
    /\ text = <<" ", "(", "a", " ", "1">>
    /\ last.r.res = "Failure"

----------------------------------------------------------------------------
(* Numbers                                                                  *)

ParseNumber ==
    /\ last.op = "input"
    /\ \E T \in Builders : Apply("parse_number", T, parse_number(text, T))

\* the number of lexemes a number input is made of, at most
MaxNumTok == 5

\* the lexemes number inputs are made of
NumLexemes ==
    {<<"0">>, <<"1">>, <<"-">>, <<"+">>, <<"0", "x">>, <<"_">>, <<".">>, <<"e">>}

\* the inputs of the tests of parse_number
NumberTests ==
    {<<"1", "0", " ">>,
     <<"-", "1", "0", " ">>,
     <<"1", "_", "0", "0", "0", "_", "0", "0", "0", " ">>,
     <<"-", "1", "0", ".", "5", " ">>,
     <<"1", "0", ".", "5", "e", "3", " ">>,
     <<"0", "x", "F", "F", " ">>,
     <<"-", "0", "x", "0", "A", " ">>,
     <<"0", "x", "F", "F", "_", "F", "F", " ">>,
     <<"0", "b", "0", "0", "0", "0", "1", "1", "1", "1", " ">>,
     <<"-", "0", "o", "7", "7", "7", "_", "7", " ">>}

InitNum == InitInput(TextsUpTo(MaxNumTok, NumLexemes) \cup NumberTests)

NextNum == ParseNumber

\* parse_number on inputs made of digits, signs, the hex prefix, underscores,
\* '.' and 'e', and on the inputs of its tests
SpecNum == InitNum /\ [][NextNum]_vars

\* the part of the input a successful parser call consumed
Token == SubSeq(text, 1, Len(text) - Len(last.r.tail))

\* a text without its leading sign
Unsigned(s) == IF s # <<>> /\ Head(s) \in {"+", "-"} THEN Tail(s) ELSE s

\* the text, after an optional sign, starts with a radix prefix
RadixPrefixed(s) ==
    \E p \in {<<"0", "x">>, <<"0", "o">>, <<"0", "b">>} : StartsWith(Unsigned(s), p)

\* the type of an integer written with this sign
IntegerType(s) == IF s # <<>> /\ Head(s) = "-" THEN "Signed" ELSE "Unsigned"

\* C14: parse_number classifies what it accepts: a radix-prefixed token is
\* consumed as a radix number, prefix and at least one digit, and is Signed
\* if it starts with '-' and Unsigned otherwise; a decimal token with a
\* fractional part or an exponent is Float; any other decimal token is Signed
\* if it starts with '-' and Unsigned otherwise, also after a '+'.
C14_NumberClassified ==
    (last.op = "parse_number" /\ last.T = "Kdl" /\ last.r.res = "Ok")
        => IF RadixPrefixed(text)
           THEN /\ Len(Unsigned(Token)) > 2
                /\ last.r.out.type = IntegerType(Token)
           ELSE IF \E i \in 1..Len(Token) : Token[i] \in {".", "e", "E"}
                THEN last.r.out.type = "Float"
                ELSE last.r.out.type = IntegerType(Token)

\* C14 happens: -0x1e was parsed whole, as the signed hex number 1e
C14_Witness ==
    /\ last.op = "parse_number"
    /\ last.T = "Kdl"
    /\ text = <<"-", "0", "x", "1", "e">>
    /\ last.r.res = "Ok"
    /\ last.r.tail = <<>>
    /\ last.r.out.type = "Signed"
    /\ last.r.out.mag = <<1, 14>>

\* the digits without leading zeros
StripZeros(s) ==
    LET nonzero == {i \in 1..Len(s) : s[i] # 0} IN
    IF nonzero = {} THEN <<>>
    ELSE SubSeq(s, CHOOSE i \in nonzero : \A j \in nonzero : i <= j, Len(s))

\* the radix the text is written in
RadixOf(s) ==
    CASE StartsWith(Unsigned(s), <<"0", "x">>) -> 16
      [] StartsWith(Unsigned(s), <<"0", "o">>) -> 8
      [] StartsWith(Unsigned(s), <<"0", "b">>) -> 2
      [] OTHER -> 10

\* every underscore of the token stands inside a digit run: a digit or an
\* underscore before it and after it
UnderscoresInside(tok, digits) ==
    \A i \in 1..Len(tok) :
        tok[i] = "_" => /\ i > 1
                        /\ i < Len(tok)
                        /\ tok[i - 1] \in digits \cup {"_"}
                        /\ tok[i + 1] \in digits \cup {"_"}

\* no two underscores of the token are adjacent
SingleUnderscores(tok) ==
    \A i \in 1..Len(tok) - 1 : ~(tok[i] = "_" /\ tok[i + 1] = "_")

\* an accepted token has its underscores inside its digit runs, and the
\* parser does not stop in front of an underscore
UnderscoresNotAtEdges ==
    (last.op = "parse_number" /\ last.T = "Kdl" /\ last.r.res = "Ok")
        => /\ UnderscoresInside(Token, RadixDigits(RadixOf(text)))
           /\ last.r.tail = <<>> \/ Head(last.r.tail) # "_"

\* an input that starts with decimal digit groups separated by underscores,
\* with nothing of a number after them, is accepted up to the end of the
\* groups, with the value its digits spell
GroupsAccepted(single) ==
    LET n == TakeWhile(text, DecDigits \cup {"_"}, Len(text), 1)
        run == SubSeq(text, 1, n)
        rest == SubSeq(text, n + 1, Len(text))
        digits == RemoveUnderscores(run)
    IN  (/\ last.op = "parse_number"
         /\ last.T = "Kdl"
         /\ ~RadixPrefixed(text)
         /\ n > 0
         /\ UnderscoresInside(run, DecDigits)
         /\ single => SingleUnderscores(run)
         /\ rest = <<>> \/ Head(rest) \notin {".", "e", "E"})
            => /\ last.r.res = "Ok"
               /\ last.r.tail = rest
               /\ last.r.out.type = "Unsigned"
               /\ last.r.out.mag = StripZeros([i \in 1..Len(digits) |-> HexValue(digits[i])])

\* C16 as stated: digit groups are separated by exactly one underscore, never
\* at the start or the end of a digit run: 1__0, 1_ and _1 are not accepted,
\* 1_000_000 is accepted with the value 1000000.
C16_SingleUnderscore ==
    /\ UnderscoresNotAtEdges
    /\ GroupsAccepted(TRUE)
    /\ (last.op = "parse_number" /\ last.T = "Kdl" /\ last.r.res = "Ok")
          => SingleUnderscores(Token)

\* C16, amended: digit groups are separated by one or more underscores, never
\* at the start or the end of a digit run: 1_ and _1 are not accepted, 1__0
\* is accepted with the value 10 and 1_000_000 with the value 1000000.
C16_UnderscoresInside ==
    /\ UnderscoresNotAtEdges
    /\ GroupsAccepted(FALSE)

\* C16 happens: 1__0 was accepted whole, with the value 10
C16_Witness ==
    /\ last.op = "parse_number"
    /\ last.T = "Kdl"
    /\ text = <<"1", "_", "_", "0">>
    /\ last.r.res = "Ok"
    /\ last.r.tail = <<>>
    /\ last.r.out.mag = <<1, 0>>

----------------------------------------------------------------------------
(* Integers at the limits of u64 and i64                                    *)

\* the magnitude of i64::MAX in the radix
I64Max(radix) ==
    CASE radix = 2 -> Repeat(1, 63)
      [] radix = 8 -> Repeat(7, 21)
      [] radix = 16 -> <<7>> \o Repeat(15, 15)
      [] OTHER -> <<9, 2, 2, 3, 3, 7, 2, 0, 3, 6, 8, 5, 4, 7, 7, 5, 8, 0, 7>>

\* the magnitude of u64::MAX + 1 in the radix
U64MaxPlusOne(radix) ==
    CASE radix = 2 -> <<1>> \o Repeat(0, 64)
      [] radix = 8 -> <<2>> \o Repeat(0, 21)
      [] radix = 16 -> <<1>> \o Repeat(0, 16)
      [] OTHER -> <<1, 8, 4, 4, 6, 7, 4, 4, 0, 7, 3, 7, 0, 9, 5, 5, 1, 6, 1, 6>>

\* the magnitude of i64::MIN - 1 in the radix
I64MinMinusOne(radix) ==
    [I64MinMagnitude(radix) EXCEPT ![Len(I64MinMagnitude(radix))] = @ + 1]

\* magnitudes a u64 holds, and magnitudes above u64::MAX
FitsU64(radix) ==
    {<<>>, <<1>>, I64Max(radix), I64MinMagnitude(radix), I64MinMinusOne(radix),
     U64Max(radix)}

AboveU64(radix) == {U64MaxPlusOne(radix), Append(U64Max(radix), 0)}

\* magnitudes of the negative numbers an i64 holds, and of numbers below
\* i64::MIN
FitsI64(radix) == {<<>>, <<1>>, I64Max(radix), I64MinMagnitude(radix)}

BelowI64(radix) == {I64MinMinusOne(radix), U64Max(radix)} \cup AboveU64(radix)

\* the digit character of a digit value
DigitChar(d) ==
    <<"0", "1", "2", "3", "4", "5", "6", "7", "8", "9", "A", "B", "C", "D", "E", "F">>[d + 1]

\* the prefix a number of the radix is written with
RadixPrefix(radix) ==
    CASE radix = 2 -> <<"0", "b">>
      [] radix = 8 -> <<"0", "o">>
      [] radix = 16 -> <<"0", "x">>
      [] OTHER -> <<>>

\* the number of leading zeros a token is written with, at most
MaxZeros == 64

\* the text with an underscore put after its first character
Grouped(s) == <<Head(s), "_">> \o Tail(s)

\* integer tokens around the limits: a sign, a radix (octal, decimal or hex),
\* leading zeros, a magnitude, written with or without a digit-group
\* underscore
BigTokens ==
    LET of(radix) ==
            {[sign |-> sign, radix |-> radix,
              digits |-> Repeat("0", zeros) \o [i \in 1..Len(mag) |-> DigitChar(mag[i])]] :
                sign \in {<<>>, <<"+">>, <<"-">>},
                zeros \in {0, 1, MaxZeros},
                mag \in FitsU64(radix) \cup AboveU64(radix) \cup BelowI64(radix)}
        written == {t \in UNION {of(radix) : radix \in {8, 10, 16}} : Len(t.digits) >= 2}
    IN  {t.sign \o RadixPrefix(t.radix) \o t.digits : t \in written}
            \cup {t.sign \o RadixPrefix(t.radix) \o Grouped(t.digits) : t \in written}

InitBig == InitInput(BigTokens)

NextBig ==
    \/ ParseNumber
    \/ ParseValue

\* parse_number and parse_value on integer tokens around the 64-bit limits
SpecBig == InitBig /\ [][NextBig]_vars

\* the magnitude an integer token spells
MagnitudeOf(s) ==
    LET digits == RemoveUnderscores(
                      SubSeq(Unsigned(s), Len(RadixPrefix(RadixOf(s))) + 1, Len(Unsigned(s))))
    IN  StripZeros([i \in 1..Len(digits) |-> HexValue(digits[i])])

\* the value of the integer token is in the range of its type
InRange(s) ==
    IF IntegerType(s) = "Signed"
    THEN MagnitudeOf(s) \in FitsI64(RadixOf(s))
    ELSE MagnitudeOf(s) \in FitsU64(RadixOf(s))

\* C15: integer parsing never wraps around: a radix-prefixed or decimal
\* integer token above u64::MAX (no '-') or below i64::MIN ('-') yields
\* BoundsError, and every token inside those ranges, the extremes included,
\* yields its exact value.
C15_NoWraparound ==
    (last.op = "parse_number" /\ last.T = "Kdl")
        => IF InRange(text)
           THEN /\ last.r.res = "Ok"
                /\ last.r.tail = <<>>
                /\ last.r.out.type = IntegerType(text)
                /\ last.r.out.mag = MagnitudeOf(text)
           ELSE /\ last.r.res = "Failure"
                /\ last.r.out = "BoundsError"

\* C17: the recognize-only builder and the materializing builders validate
\* the same grammar: on every input parse_value succeeds under one exactly
\* when it succeeds under the other, with the same remaining input; the one
\* difference allowed is the materializing parse failing with BoundsError
\* on a number that overflows its type.
C17_SameGrammar ==
    (last.op = "parse_value" /\ last.T = "Kdl")
        => LET recognized == parse_value(text, "Unit") IN
           \/ /\ last.r.res = "Ok"
              /\ recognized.res = "Ok"
              /\ recognized.tail = last.r.tail
           \/ /\ last.r.res # "Ok"
              /\ recognized.res # "Ok"
           \/ /\ recognized.res = "Ok"
              /\ last.r.res = "Failure"
              /\ last.r.out = "BoundsError"
              /\ ~InRange(text)

----------------------------------------------------------------------------
(* Strings and identifiers                                                  *)

ParseRawString ==
    /\ last.op = "input"
    /\ Apply("parse_raw_string", "Kdl", parse_raw_string(text))

ParseEscapedString ==
    /\ last.op = "input"
    /\ Apply("parse_escaped_string", "Kdl", parse_escaped_string(text))

ParseBareIdentifier ==
    /\ last.op = "input"
    /\ Apply("parse_bare_identifier", "Kdl", parse_bare_identifier(text))

NextString ==
    \/ ParseRawString
    \/ ParseEscapedString
    \/ ParseBareIdentifier

\* the number of characters a raw string input is made of, at most
MaxRawLen == 8

\* the characters raw string inputs are made of
RawChars == {<<"r">>, <<"#">>, <<"\"">>, <<"a">>}

InitRaw == InitInput(TextsUpTo(MaxRawLen, RawChars))

\* the string parsers on inputs made of r, '#', quotes and a letter
SpecRaw == InitRaw /\ [][NextString]_vars

\* the number of '#' the text starts with
LeadingHashes(s) ==
    CHOOSE n \in 0..Len(s) :
        /\ \A i \in 1..n : s[i] = "#"
        /\ n = Len(s) \/ s[n + 1] # "#"

\* the places of the body where a quote is followed by at least n '#'
ClosingQuotes(body, n) ==
    {i \in 1..Len(body) : /\ body[i] = "\""
                          /\ i + n <= Len(body)
                          /\ \A k \in 1..n : body[i + k] = "#"}

\* the least number of a non-empty set of numbers
Least(S) == CHOOSE i \in S : \A j \in S : i <= j

\* C18: parse_raw_string on r, N hashes and a quote returns as content
\* everything up to the first quote that is followed by at least N hashes,
\* earlier quotes included, and leaves what follows those N hashes as tail,
\* further hashes included; when no quote is followed by N hashes it fails
\* unrecoverably at the end of the input and returns no string.
C18_RawStringCloses ==
    LET n == LeadingHashes(Tail(text))
        body == SubSeq(text, n + 3, Len(text))
        closing == ClosingQuotes(body, n)
    IN  (/\ last.op = "parse_raw_string"
         /\ text # <<>>
         /\ Head(text) = "r"
         /\ Len(text) >= n + 2
         /\ text[n + 2] = "\"")
            => IF closing = {}
               THEN /\ last.r.res = "Failure"
                    /\ last.r.tail = <<>>
                    /\ state = text
               ELSE /\ last.r.res = "Ok"
                    /\ last.r.out = SubSeq(body, 1, Least(closing) - 1)
                    /\ last.r.tail = SubSeq(body, Least(closing) + n + 1, Len(body))

\* C18 happens: in r#""a"## the first quote of the body is content, the
\* second closes the string, and the second hash is left over
C18_Witness ==
    /\ last.op = "parse_raw_string"
    /\ text = <<"r", "#", "\"", "\"", "a", "\"", "#", "#">>
    /\ last.r.res = "Ok"
    /\ last.r.out = <<"\"", "a">>
    /\ last.r.tail = <<"#">>

\* the number of lexemes a quoted string input is made of, at most
MaxEscTok == 6

\* the lexemes quoted string inputs are made of; the last one is the escape
\* of the letter a
EscLexemes ==
    {<<"\"">>, <<"\\">>, <<"a">>, <<"n">>, <<"\\", "u", "{", "6", "1", "}">>}

InitEsc == InitInput(TextsUpTo(MaxEscTok, EscLexemes))

\* the string parsers on inputs made of quotes, backslashes, letters and a
\* unicode escape
SpecEsc == InitEsc /\ [][NextString]_vars

\* the index of the first '}' of the text
ClosingBrace(s) == Least({i \in 1..Len(s) : s[i] = "}"})

\* the character a one-letter escape stands for
EscapedChar(c) ==
    CASE c = "n" -> "\n" [] c = "r" -> "\r" [] c = "t" -> "\t" [] c = "b" -> "U+0008"
      [] c = "f" -> "\f" [] OTHER -> c

\* the content a string body spells: its unescaped characters and the
\* characters its escapes stand for, in the order of the source
RECURSIVE Unescaped(_)
Unescaped(body) ==
    IF body = <<>> THEN <<>>
    ELSE IF Head(body) # "\\" THEN <<Head(body)>> \o Unescaped(Tail(body))
    ELSE IF body[2] = "u"
         THEN <<CharOf(FromHex(SubSeq(body, 4, ClosingBrace(body) - 1), 0))>>
                  \o Unescaped(SubSeq(body, ClosingBrace(body) + 1, Len(body)))
    ELSE <<EscapedChar(body[2])>> \o Unescaped(SubSeq(body, 3, Len(body)))

\* C19: parse_escaped_string with the KdlString builder returns a borrowed
\* string exactly when the body holds no escape sequence and an owned one
\* when it holds at least one; either way the content is the unescaped runs
\* and the decoded escapes in source order.
C19_BorrowedUnlessEscaped ==
    (last.op = "parse_escaped_string" /\ last.r.res = "Ok")
        => LET body == SubSeq(Token, 2, Len(Token) - 1) IN
           /\ last.r.out.owned <=> (\E i \in 1..Len(body) : body[i] = "\\")
           /\ last.r.out.text = Unescaped(body)

\* C19 happens: "a\na", an unescaped run, an escape and a second run, came
\* back as an owned string
C19_Witness ==
    /\ last.op = "parse_escaped_string"
    /\ text = <<"\"", "a", "\\", "n", "a", "\"">>
    /\ last.r.res = "Ok"
    /\ last.r.out = KdlString(<<"a", "\n", "a">>, TRUE)

\* the number of characters an identifier input is made of, at most
MaxIdentLen == 6

\* the characters identifier inputs are made of
IdentChars == {<<"a">>, <<"1">>, <<"-">>, <<" ">>, <<"=">>}

InitIdent == InitInput(TextsUpTo(MaxIdentLen, IdentChars))

\* the string parsers on inputs made of identifier characters, a space and
\* an '='
SpecIdent == InitIdent /\ [][NextString]_vars

\* the length of the longest prefix of the text made of identifier characters
IdentifierRun(s) ==
    CHOOSE n \in 0..Len(s) :
        /\ \A i \in 1..n : is_identifier(s[i])
        /\ n = Len(s) \/ ~is_identifier(s[n + 1])

\* C20: on an input that starts with an initial identifier character,
\* parse_bare_identifier returns the longest prefix made of identifier
\* characters and the rest as tail, whether the run ends at a non-identifier
\* character or at the end of the input; on any other input it returns a
\* recoverable error.
C20_LongestIdentifier ==
    last.op = "parse_bare_identifier"
        => IF text # <<>> /\ is_initial_identifier(Head(text))
           THEN /\ last.r.res = "Ok"
                /\ last.r.out = SubSeq(text, 1, IdentifierRun(text))
                /\ last.r.tail = SubSeq(text, IdentifierRun(text) + 1, Len(text))
           ELSE /\ last.r.res = "Error"
                /\ state = text

----------------------------------------------------------------------------
(* Whitespace and comments                                                  *)

ParseBlockComment ==
    /\ last.op = "input"
    /\ Apply("parse_block_comment", "Unit", parse_block_comment(text))

\* the number of characters a block comment input is made of, at most
MaxCommentLen == 9

\* the characters block comment inputs are made of
CommentChars == {<<"/">>, <<"*">>, <<"a">>}

\* the inputs of the tests of parse_block_comment
CommentTests ==
    {<<"/", "*", " ", "a", "b", "c", " ", "*", "/", " ", "d", "e", "f">>,
     <<"/", "*", "\n", "a", "b", "c", "\n", "1", "2", "3", "*", "/", " ",
       "d", "e", "f">>,
     <<"/", "*", " ", "a", "b", "c", " ", "/", "*", " ", "1", "2", "3",
       " ", "*", "/", " ", "d", "e", "f", " ", "*", "/", " ", "4", "5",
       "6">>,
     <<"/", "*", " ", "1", "2", "3">>,
     <<"/", "*", " ", "1", "2", "3", " ", "/", "*", " ", "a", "b", "c",
       " ", "*", "/", " ", "d", "e", "f">>,
     <<"/", "*", " ", "1", "2", "3", " ", "*", "/", " ", "a", "b", "c",
       " ", "/", "*", " ", "4", "5", "6", " ", "*", "/", " ", "d", "e",
       "f">>}

InitComment == InitInput(TextsUpTo(MaxCommentLen, CommentChars) \cup CommentTests)

NextComment == ParseBlockComment

\* parse_block_comment on inputs made of '/', '*' and a letter
SpecComment == InitComment /\ [][NextComment]_vars

\* reading s from place i on with depth comments open: the place after the
\* "*/" that brings the depth to zero, 0 when the input ends before it
RECURSIVE BalancingEnd(_, _, _)
BalancingEnd(s, i, depth) ==
    IF i + 1 > Len(s) THEN 0
    ELSE IF s[i] = "/" /\ s[i + 1] = "*" THEN BalancingEnd(s, i + 2, depth + 1)
    ELSE IF s[i] = "*" /\ s[i + 1] = "/"
         THEN IF depth = 1 THEN i + 2 ELSE BalancingEnd(s, i + 2, depth - 1)
    ELSE BalancingEnd(s, i + 1, depth)

\* C21: parse_block_comment accepts exactly the text from "/*" to the "*/"
\* that balances it, nested pairs counted, and leaves what follows as tail; an
\* unterminated comment, nested or not, is an error at the end of the input,
\* and an input that does not start with "/*" is an error where it starts.
C21_BlockCommentBalanced ==
    LET end == BalancingEnd(text, 3, 1) IN
    last.op = "parse_block_comment"
        => IF ~StartsWith(text, <<"/", "*">>)
           THEN /\ last.r.res = "Error"
                /\ last.r.tail = text
           ELSE IF end = 0
                THEN /\ last.r.res = "Error"
                     /\ last.r.tail = <<>>
                     /\ state = text
           ELSE /\ last.r.res = "Ok"
                /\ last.r.tail = SubSeq(text, end, Len(text))
                /\ state = last.r.tail

\* a comment with a comment nested in it is accepted up to its own "*/"
C21_Witness ==
    /\ last.op = "parse_block_comment"
    /\ text = <<"/", "*", "/", "*", "*", "/", "*", "/", "a">>
    /\ last.r.res = "Ok"
    /\ state = <<"a">>

----------------------------------------------------------------------------
(* Node terminators and list terminators                                    *)

\* nothing but node space is left of the input
OnlyNodeSpaceLeft(input) == opt(parse_node_space(input), input).tail = <<>>

\* nothing but linespace is left of the input
OnlyLinespaceLeft(input) == parse_linespace(input).tail = <<>>

\* C22 as the specification states it: for a node yielded by a Children list,
\* next_event never produces End by matching the end of the input.
C22_EofEndsOnlyDocumentNodes ==
    [][(/\ last'.op = "next_event"
        /\ lists[last'.list].kind = "Children"
        /\ last'.ret = "End")
            => ~OnlyNodeSpaceLeft(state)]_vars

\* C22: the end of the input terminates a node in every list: for a node
\* yielded by a Children list too, next_event at the end of the input produces
\* End; it is the next_node call on the Children list that returns an error
\* at the end of the input, so the end of the input closes the Document list
\* only.
C22_EofEndsNodeNotChildren ==
    [][/\ (last'.op = "next_event" /\ OnlyNodeSpaceLeft(state))
            => /\ last'.ret = "End"
               /\ state' = <<>>
               /\ ~lists'[last'.list].child_in_progress
       /\ (/\ last'.op = "next_node"
           /\ lists[last'.list].kind = "Children"
           /\ ~last'.again
           /\ ~lists[last'.list].child_in_progress
           /\ OnlyLinespaceLeft(state))
            => /\ last'.ret = "Err"
               /\ state' = state]_vars

\* the node of a Children list has ended at the end of the input
C22_Witness ==
    /\ text = <<"a", "{", "a">>
    /\ last.op = "next_event"
    /\ lists[last.list].kind = "Children"
    /\ last.ret = "End"
    /\ state = <<>>

\* a node terminator starts here, after optional node space: a newline, a
\* ';', a single-line comment or, in a Document, the end of the input
TerminatorFollows(input, kind) ==
    LET rest == opt(parse_node_space(input), input).tail IN
    \/ parse_endline(rest).res = "Ok"
    \/ char(";", rest).res = "Ok"
    \/ kind = "Document" /\ rest = <<>>

\* the input after the name of the node that starts here, linespace skipped
AfterGrammarName(input) == GrammarName(parse_linespace(input).tail).tail

\* C23: a node with no arguments, properties or children is valid: when the
\* name of the node a next_node call yields is followed in the input, after
\* optional node space, by a newline, a ';', a single-line comment or (in a
\* Document) the end of the input, the first next_event on that node yields
\* End, and so for a ';' as for a newline.
C23_ImmediateTerminator ==
    [][(/\ last'.op = "next_node"
        /\ last'.ret = "Node"
        /\ GrammarName(parse_linespace(state).tail).res = "Ok"
        /\ TerminatorFollows(AfterGrammarName(state), lists[last'.list].kind))
            => NodeContent_next_event([state |-> state', in_progress |-> TRUE],
                                      "Kdl").ret = "End"]_vars

\* the number of '{' of the text from place i on that no '}' closes, depth of
\* them being open already
RECURSIVE UnclosedBraces(_, _, _)
UnclosedBraces(s, i, depth) ==
    IF i > Len(s) THEN depth
    ELSE IF s[i] = "{" THEN UnclosedBraces(s, i + 1, depth + 1)
    ELSE IF s[i] = "}" /\ depth > 0 THEN UnclosedBraces(s, i + 1, depth - 1)
    ELSE UnclosedBraces(s, i + 1, depth)

\* the input, linespace skipped, starts with the character
NextIs(c, input) == char(c, parse_linespace(input).tail).res = "Ok"

\* C24: a node list closes only on its own terminator.  Document::next_node
\* returns None only at the end of the input and returns an error on a stray
\* '}'; Children::next_node returns None only after consuming '}', or without
\* consuming anything once the list was closed, and returns an error at the
\* end of the input; no drain of a fresh Document and no next_node of the
\* Document returns Ok or None on a document with an unclosed '{'.
C24_ListClosesOnItsTerminator ==
    [][/\ (/\ last'.op = "next_node"
           /\ lists[last'.list].kind = "Document"
           /\ last'.ret = "None")
            => /\ OnlyLinespaceLeft(state)
               /\ state' = <<>>
               /\ UnclosedBraces(text, 1, 0) = 0
       /\ (/\ last'.op = "next_node"
           /\ lists[last'.list].kind = "Document"
           /\ ~lists[last'.list].child_in_progress
           /\ NextIs("}", state))
            => /\ last'.ret = "Err"
               /\ state' = state
       /\ (/\ last'.op = "next_node"
           /\ lists[last'.list].kind = "Children"
           /\ last'.ret = "None")
            => IF last'.again THEN state' = state
               ELSE /\ NextIs("}", state)
                    /\ state' = Tail(parse_linespace(state).tail)
       /\ (/\ last'.op = "next_node"
           /\ lists[last'.list].kind = "Children"
           /\ ~last'.again
           /\ ~lists[last'.list].child_in_progress
           /\ OnlyLinespaceLeft(state))
            => last'.ret = "Err"
       /\ (/\ last'.op = "drain_list"
           /\ last'.fresh
           /\ UnclosedBraces(text, 1, 0) > 0)
            => last'.ret = "Err"]_vars

\* draining a document whose '{' is never closed has returned an error
C24_Witness ==
    /\ text = <<"a", "{", "a", ";">>
    /\ last.op = "drain_list"
    /\ last.fresh
    /\ last.ret = "Err"
    /\ state = <<>>

ParseSingleLineComment ==
    /\ last.op = "input"
    /\ Apply("parse_single_line_comment", "Unit", parse_single_line_comment(text))

\* the number of characters a single-line comment input is made of, at most
MaxLineLen == 6

\* the characters single-line comment inputs are made of
LineChars == {<<"/">>, <<"a">>, <<"\n">>, <<"\r">>}

InitLine == InitInput(TextsUpTo(MaxLineLen, LineChars))

NextLine == ParseSingleLineComment

\* parse_single_line_comment on inputs made of '/', a letter, and the
\* newline characters of "\r\n"
SpecLine == InitLine /\ [][NextLine]_vars

\* the places of the text that hold a newline character
NewlinePlaces(s) == {i \in 1..Len(s) : is_newline(s[i])}

\* the number of characters of the line terminator at place i of the text
TerminatorLength(s, i) ==
    IF s[i] = "\r" /\ i < Len(s) /\ s[i + 1] = "\n" THEN 2 ELSE 1

\* C25 as the specification states it: parse_single_line_comment consumes
\* "//" and the characters up to but not including the next line terminator,
\* or up to the end of the input, and leaves that line terminator in the tail.
C25_NewlineLeft ==
    LET places == NewlinePlaces(text) IN
    (last.op = "parse_single_line_comment" /\ StartsWith(text, <<"/", "/">>))
        => /\ last.r.res = "Ok"
           /\ last.r.tail = IF places = {} THEN <<>>
                            ELSE SubSeq(text, Least(places), Len(text))

\* C25: parse_single_line_comment consumes "//" and the characters up to and
\* including the next line terminator, "\r\n" being one terminator, or up to
\* the end of the input, and leaves what follows that line terminator as the
\* tail; an input that does not start with "//" is an error where it starts.
C25_NewlineConsumed ==
    LET places == NewlinePlaces(text) IN
    last.op = "parse_single_line_comment"
        => IF ~StartsWith(text, <<"/", "/">>)
           THEN /\ last.r.res = "Error"
                /\ last.r.tail = text
                /\ state = text
           ELSE /\ last.r.res = "Ok"
                /\ state = last.r.tail
                /\ last.r.tail =
                       IF places = {} THEN <<>>
                       ELSE SubSeq(text,
                                   Least(places) + TerminatorLength(text, Least(places)),
                                   Len(text))

\* a comment ended by "\r\n" is consumed with both characters
C25_Witness ==
    /\ last.op = "parse_single_line_comment"
    /\ text = <<"/", "/", "a", "\r", "\n", "a">>
    /\ last.r.res = "Ok"
    /\ state = <<"a">>

ParsePlainWhitespace ==
    /\ last.op = "input"
    /\ Apply("parse_plain_whitespace", "Unit", parse_plain_whitespace(text))

\* the number of characters a whitespace input is made of, at most
MaxWsLen == 5

\* the characters whitespace inputs are made of: a space, the byte-order
\* mark U+FEFF, the character U+FFEF, a letter, and those of block comments
WsChars == {<<" ">>, <<"U+FEFF">>, <<"U+FFEF">>, <<"a">>, <<"/">>, <<"*">>}

InitWs == InitInput(TextsUpTo(MaxWsLen, WsChars))

NextWs == ParsePlainWhitespace

\* parse_plain_whitespace on inputs made of these characters
SpecWs == InitWs /\ [][NextWs]_vars

\* tab, the Unicode space separators, and the byte-order mark
SpaceSeparatorsAndBom ==
    {"\t", " ", "U+00A0", "U+1680", "U+2000", "U+2001", "U+2002", "U+2003",
     "U+2004", "U+2005", "U+2006", "U+2007", "U+2008", "U+2009", "U+200A",
     "U+202F", "U+205F", "U+3000", "U+FEFF"}

\* the input after the longest run of these characters and block comments
RECURSIVE AfterWhitespace(_)
AfterWhitespace(input) ==
    IF input # <<>> /\ Head(input) \in SpaceSeparatorsAndBom
    THEN AfterWhitespace(Tail(input))
    ELSE IF parse_block_comment(input).res = "Ok"
         THEN AfterWhitespace(parse_block_comment(input).tail)
    ELSE input

\* C26: parse_plain_whitespace accepts the byte-order mark U+FEFF as a
\* whitespace character, alongside the Unicode space separators and block
\* comments: it consumes the longest run of such items, and it is an error
\* when the input starts with none.
C26_BomIsWhitespace ==
    last.op = "parse_plain_whitespace"
        => IF AfterWhitespace(text) = text
           THEN /\ last.r.res = "Error"
                /\ state = text
           ELSE /\ last.r.res = "Ok"
                /\ last.r.tail = AfterWhitespace(text)
                /\ state = last.r.tail

----------------------------------------------------------------------------
(* Errors and the shared cursor                                             *)

\* C27: a next_node or next_event call that returns a parse error leaves the
\* remaining input exactly as it was before the call: no linespace, node
\* space, identifier or '=' the parser went over is consumed.
C27_ErrorKeepsCursor ==
    [][(/\ last'.op \in {"next_node", "next_event"}
        /\ last'.ret = "Err")
            => state' = state]_vars

\* next_event has failed after node space, an identifier and '=', and all of
\* them are still to be read
C27_Witness ==
    /\ text = <<"a", " ", "a", "=">>
    /\ last.op = "next_event"
    /\ last.ret = "Err"
    /\ state = <<" ", "a", "=">>

\* no NodeContent is live and every list of the stack has a node in progress
NodeLeftOpen(cs, ls) ==
    /\ cs = {}
    /\ \A k \in 1..Len(ls) : ls[k].child_in_progress

\* C28: when next_event returns a parse error the content cursor is consumed
\* and the child_in_progress flag of the owning list, and of each enclosing
\* list, stays true: no later operation clears it, and every later next_node
\* or drain on one of these lists panics instead of returning an error, a
\* node or None.
C28_ErrorLeavesNodeOpen ==
    [][/\ (last'.op = "next_event" /\ last'.ret = "Err")
            => /\ NodeLeftOpen(contents', lists')
               /\ lists' = lists
       /\ NodeLeftOpen(contents, lists)
            => /\ NodeLeftOpen(contents', lists')
               /\ last'.op \in {"next_node", "drain_list"} => last'.ret = "Panic"
               /\ last'.op \in {"next_node", "drain_list", "drop_children"}]_vars

\* next_event has failed on the one node of a document, and the Document
\* panics at the next next_node call
C28_Witness ==
    /\ text = <<"a", "}">>
    /\ last.op = "next_event"
    /\ last.ret = "Err"
    /\ NodeLeftOpen(contents, lists)
    /\ NextNodeWouldReturn(1) = "Panic"

----------------------------------------------------------------------------
(* Draining, call by call                                                   *)
(*                                                                          *)
(* NodeList::drain and NodeContent::drain as the calls they make: next_node *)
(* on the list, next_event on the content of the node it yielded until the  *)
(* node ends, children.drain() on the Children of a Children event, and the *)
(* ? operator that returns at the first error.                              *)

\* no call has returned an error yet
Draining == ~panicked /\ last.ret \notin {"Err", "Panic"}

\* self.next_event()? of NodeContent::drain
DrainNextEvent ==
    /\ Draining
    /\ NextEvent

\* self.next_node()? of NodeList::drain
DrainNextNode ==
    /\ Draining
    /\ ~lists[Top].fused
    /\ NextNode

\* children.drain() has returned Ok: the Children list goes out of scope
DrainChildrenReturn ==
    /\ Draining
    /\ lists[Top].fused
    /\ DropChildren

NextDrain ==
    \/ DrainNextEvent
    \/ DrainNextNode
    \/ DrainChildrenReturn

\* Document::new(text).drain(), one call at a time
SpecDrain == Init /\ [][NextDrain]_vars

\* the drain makes no further call: a call has returned an error, or the
\* Document has returned None
DrainIdle ==
    \/ ~Draining
    \/ contents = {} /\ Top = 1 /\ lists[1].fused

\* the drain of the Document has returned Ok or Err
DrainReturned ==
    \/ last.ret = "Err"
    \/ Top = 1 /\ lists[1].fused /\ last.op = "next_node" /\ last.ret = "None"

\* what is left for the drain to do: the characters to read, the node to
\* end, the lists to close
DrainMeasure ==
    4 * Len(state)
    + (IF contents # {} THEN 2 ELSE 0)
    + 2 * Top
    + (IF lists[Top].fused THEN 0 ELSE 1)

\* one round of each at_least_one loop over the whitespace parsers, run on
\* the input, consumes a character when it succeeds
RoundsConsume(input) ==
    \A r \in {plain_whitespace_item(input), linespace_item(input),
              node_space_item(input), char("_", input)} :
        r.res = "Ok" => Len(r.tail) < Len(input)

\* C29: draining terminates on every finite input: each node yielded and each
\* Argument, Property or Children event consumes at least one character of
\* the remaining input, no call gives input back, each round of an
\* at_least_one loop consumes at least one character, every call that returns
\* no error brings the drain nearer to its end (the measure, which is never
\* negative, decreases), and when the drain makes no further call it has
\* returned Ok or Err, the same result as NodeList::drain computes.
C29_DrainTerminates ==
    /\ [][/\ Len(state') <= Len(state)
          /\ (\/ last'.op = "next_node" /\ last'.ret = "Node"
              \/ last'.op = "next_event"
                    /\ last'.ret \in {"Argument", "Property", "Children"})
                => Len(state') < Len(state)
          /\ last'.ret # "Err" => DrainMeasure' < DrainMeasure]_vars
    /\ [](\A i \in 1..(Len(state) + 1) : RoundsConsume(SubSeq(state, i, Len(state))))
    /\ [](~panicked /\ DrainMeasure >= 0)
    /\ [](DrainIdle
            => /\ DrainReturned
               /\ last.ret = "Err" <=> NodeList_drain(Document_new(text)).ret = "Err")

\* the drain of a document with an argument and an empty children block has
\* returned Ok at the end of the input
C29_Witness ==
    /\ text = <<"a", " ", "1", "{", "}">>
    /\ DrainReturned
    /\ last.ret = "None"
    /\ state = <<>>

----------------------------------------------------------------------------
(* Digit-group underscores                                                  *)

\* C30: digit-group underscores never change the outcome of parsing a decimal
\* number: whatever the length of the token, parse_number gives for an
\* accepted decimal token the result KdlNumber::from_str gives for the token
\* with its underscores removed, the same variant and value or the same
\* BoundsError.
C30_UnderscoresNeutral ==
    (/\ last.op = "parse_number"
     /\ last.T = "Kdl"
     /\ ~RadixPrefixed(text)
     /\ parse_number(text, "Unit").res = "Ok"
     /\ parse_number(text, "Unit").tail = <<>>)
        => LET plain == parse_number(RemoveUnderscores(text), "Kdl") IN
           /\ last.r.res = plain.res
           /\ last.r.out = plain.out

====
